---------------------------- MODULE Spec2Model ----------------------------
(***************************************************************************)
(* yay-friend: the cache store (internal/cache), the decision gate and the *)
(* install pipeline (internal/cmd/root.go), modelled as state machines.    *)
(*                                                                         *)
(* Strings are sequences of one-character strings, so that slicing         *)
(* (commitHash[:8]), concatenation and per-character replacement are the   *)
(* operations the Go code performs.  A file name is the identifier         *)
(* followed by the single token ".json".                                   *)
(***************************************************************************)
EXTENDS Integers, Sequences, FiniteSets, TLC

VARIABLES
    files,      \* the cache directory: path -> [data, modTime]
    now,        \* the wall clock read by time.Now()
    last,       \* the last cache API call and what it returned
    inserted,   \* history: the keys <<name, id>> SaveAnalysis was called with
    pc,         \* position of the running command
    cfg,        \* *types.Config of the running command
    operation,  \* *types.YayOperation of runInstall
    idx,        \* index of the package runInstall is evaluating
    pkgInfo,    \* *types.PackageInfo of the package under evaluation
    analysis,   \* *types.SecurityAnalysis held by analyzeAndDecide
    gate,       \* state of the decision gate for the package under evaluation
    out,        \* what the gate wrote to the terminal, in order
    aiCalls,    \* history: provider invocations for the package under evaluation
    fromCache,  \* history: analysis was taken from the cache
    installed,  \* history: InstallPackages calls of this run
    result,     \* what the running command returned
    response,   \* what fmt.Scanln read at the gate's prompt
    analysed,   \* history: key <<name, id>> -> verdict the pipeline analysed and saved
    ctxDone,    \* the context of main is done: SIGINT or SIGTERM was delivered
    cacheManager, \* the *CacheManager of analyzeAndDecide is not nil
    recordFile, \* one record file and the two processes that run for its key at once
    call        \* one call of AnalyzePKGBUILDWithOptions: the caller and its spinner goroutine

vars == <<files, now, last, inserted, pc, cfg, operation, idx, pkgInfo,
          analysis, gate, out, aiCalls, fromCache, installed, result, response, analysed,
          ctxDone, cacheManager,
                   recordFile, call>>

cacheVars == <<files, now, last, inserted>>
runVars   == <<pc, cfg, operation, idx, pkgInfo, analysis, gate, out,
               aiCalls, fromCache, installed, result, response, analysed, ctxDone, cacheManager,
                   recordFile, call>>

---------------------------------------------------------------------------
(* Bounds of the model. *)

MaxTime  == 2     \* clock readings 0..MaxTime
MaxFiles == 2     \* record files the cache directory may hold
MaxPkgs  == 2     \* packages named on one command line
MaxFindings == 1  \* findings in one answer of the provider
MaxNameLen == 2   \* characters of a package name given to sanitizePackageName

---------------------------------------------------------------------------
(* types.SecurityEntropy (unnamed/part_010) *)

EntropyMinimal  == 0
EntropyLow      == 1
EntropyModerate == 2
EntropyHigh     == 3
EntropyCritical == 4

Levels == EntropyMinimal..EntropyCritical

(* Strings. *)

Rep(c, n) == [i \in 1..n |-> c]

HashLen == 40
HashA == Rep("a", HashLen)
HashB == Rep("b", HashLen)
ShortId == <<"a", "b", "c">>
SlashId == Rep("c", 4) \o <<"/">> \o Rep("d", 4)
JsonExt == ".json"

NameHello == <<"h", "i">>
NameFoo   == <<"f", "o", "o">>
NameSlash == <<"a", "/", "b">>
NameUnder == <<"a", "_", "b">>

---------------------------------------------------------------------------
(* types.SecurityFinding and types.SecurityAnalysis (unnamed/part_010),    *)
(* with the fields the cache and the gate read.  A nil or empty slice is   *)
(* the empty sequence; the zero value of an int is 0, of a string "".      *)

Finding(type, entropy, severity, line) ==
    [Type |-> type, Entropy |-> entropy, Severity |-> severity, LineNumber |-> line]

Analysis(name, entropy, level, findings, rec, factors) ==
    [PackageName |-> name, OverallEntropy |-> entropy, OverallLevel |-> level,
     Findings |-> findings, Recommendation |-> rec, EntropyFactors |-> factors]

NoAnalysis == [nil |-> TRUE]

(* encoding/json on these types.  A JSON object is a function from its     *)
(* keys; a field tagged omitempty is left out when it holds its zero       *)
(* value, and a key absent on decoding leaves the field at its zero value. *)

Field(obj, key, zero) == IF key \in DOMAIN obj THEN obj[key] ELSE zero

MarshalFinding(f) ==
    LET keys == {"type", "entropy", "severity"}
                \cup (IF f.LineNumber # 0 THEN {"line_number"} ELSE {})
    IN  [k \in keys |->
            CASE k = "type"        -> f.Type
              [] k = "entropy"     -> f.Entropy
              [] k = "severity"    -> f.Severity
              [] k = "line_number" -> f.LineNumber]

UnmarshalFinding(obj) ==
    Finding(Field(obj, "type", ""), Field(obj, "entropy", 0),
            Field(obj, "severity", 0), Field(obj, "line_number", 0))

MarshalAnalysisTagsSwapped(a) ==
    LET keys == {"package_name", "overall_entropy", "overall_level", "findings",
                 "recommendation"}
                \cup (IF a.EntropyFactors # <<>> THEN {"entropy_factors"} ELSE {})
    IN  [k \in keys |->
            CASE k = "package_name"    -> a.PackageName
              [] k = "overall_entropy" -> a.OverallLevel
              [] k = "overall_level"   -> a.OverallEntropy
              [] k = "findings"        ->
                    [i \in 1..Len(a.Findings) |-> MarshalFinding(a.Findings[i])]
              [] k = "recommendation"  -> a.Recommendation
              [] k = "entropy_factors" -> a.EntropyFactors]

MarshalAnalysis(a) ==
    LET keys == {"package_name", "overall_entropy", "overall_level", "findings",
                 "recommendation"}
                \cup (IF a.EntropyFactors # <<>> THEN {"entropy_factors"} ELSE {})
    IN  [k \in keys |->
            CASE k = "package_name"    -> a.PackageName
              [] k = "overall_entropy" -> a.OverallEntropy
              [] k = "overall_level"   -> a.OverallLevel
              [] k = "findings"        ->
                    [i \in 1..Len(a.Findings) |-> MarshalFinding(a.Findings[i])]
              [] k = "recommendation"  -> a.Recommendation
              [] k = "entropy_factors" -> a.EntropyFactors]

UnmarshalAnalysis(obj) ==
    LET fs == Field(obj, "findings", <<>>)
    IN  Analysis(Field(obj, "package_name", <<>>),
                 Field(obj, "overall_entropy", 0),
                 Field(obj, "overall_level", 0),
                 [i \in 1..Len(fs) |-> UnmarshalFinding(fs[i])],
                 Field(obj, "recommendation", ""),
                 Field(obj, "entropy_factors", <<>>))

(* cache.CachedAnalysis / cache.CacheMetadata as written by SaveAnalysis.  *)

MarshalCached(name, commitHash, t, a) ==
    [cache_metadata |-> [commit_hash |-> commitHash, package_name |-> name,
                         cached_at |-> t, cache_version |-> "1.0",
                         yay_friend_version |-> "1.0.0"],
     analysis |-> MarshalAnalysis(a)]

UnmarshalCached(data) ==
    [CacheMetadata |-> [CommitHash  |-> data.cache_metadata.commit_hash,
                        PackageName |-> data.cache_metadata.package_name,
                        CachedAt    |-> data.cache_metadata.cached_at],
     Analysis |-> UnmarshalAnalysis(data.analysis)]

---------------------------------------------------------------------------
(* The cache store (unnamed/part_002, package cache). *)

UnsafeChars == {"/", "\\", ":", "*", "?", "\"", "<", ">", "|", " "}

sanitizePackageNameFirstOnly(packageName) ==
    [i \in 1..Len(packageName) |->
        IF packageName[i] \in UnsafeChars
           /\ \A k \in 1..(i - 1) : packageName[k] \notin UnsafeChars
        THEN "_" ELSE packageName[i]]

\* strings.NewReplacer of ten one-byte strings, each to "_": every byte is
\* mapped on its own.
sanitizePackageName(packageName) ==
    [i \in 1..Len(packageName) |->
        IF packageName[i] \in UnsafeChars THEN "_" ELSE packageName[i]]

getCacheFilePathOnePerPackage(packageName, commitHash) ==
    <<sanitizePackageName(packageName), <<JsonExt>>>>

getCacheFilePath(packageName, commitHash) ==
    <<sanitizePackageName(packageName), Append(commitHash, JsonExt)>>

HasSuffixJson(fileName) == Len(fileName) > 0 /\ fileName[Len(fileName)] = JsonExt

Ret(kind, a) == [kind |-> kind, analysis |-> a]

GetCachedAnalysisUnchecked(fs, packageName, commitHash) ==
    LET cacheFile == getCacheFilePath(packageName, commitHash)
    IN  IF cacheFile \notin DOMAIN fs
        THEN IF Len(commitHash) < 8 THEN Ret("panic", NoAnalysis)
                                    ELSE Ret("miss", NoAnalysis)
        ELSE Ret("hit", UnmarshalCached(fs[cacheFile].data).Analysis)

GetCachedAnalysisInvertedCheck(fs, packageName, commitHash) ==
    LET cacheFile == getCacheFilePath(packageName, commitHash)
    IN  IF cacheFile \notin DOMAIN fs
        THEN IF Len(commitHash) < 8 THEN Ret("panic", NoAnalysis)
                                    ELSE Ret("miss", NoAnalysis)
        ELSE LET cached == UnmarshalCached(fs[cacheFile].data)
             IN  IF cached.CacheMetadata.CommitHash = commitHash
                 THEN Ret("corrupt", NoAnalysis)
                 ELSE Ret("hit", cached.Analysis)

\* GetCachedAnalysis: "miss" when the file is absent, built with commitHash[:8],
\* which panics on an identifier shorter than 8 bytes.
GetCachedAnalysis(fs, packageName, commitHash) ==
    LET cacheFile == getCacheFilePath(packageName, commitHash)
    IN  IF cacheFile \notin DOMAIN fs
        THEN IF Len(commitHash) < 8 THEN Ret("panic", NoAnalysis)
                                    ELSE Ret("miss", NoAnalysis)
        ELSE LET cached == UnmarshalCached(fs[cacheFile].data)
             IN  IF cached.CacheMetadata.CommitHash # commitHash
                 THEN Ret("corrupt", NoAnalysis)
                 ELSE Ret("hit", cached.Analysis)

IsCached(fs, packageName, commitHash) ==
    getCacheFilePath(packageName, commitHash) \in DOMAIN fs

\* os.WriteFile(packageDir/commitHash+".json"): only packageDir is created, so
\* an identifier holding a path separator names a directory that is not there.
WriteFileFails(commitHash) == \E i \in 1..Len(commitHash) : commitHash[i] = "/"

\* SaveAnalysis: the directory is created, the record written over whatever
\* the path held; a failed write leaves the store as it was.
SaveAnalysisFiles(fs, t, packageName, commitHash, a) ==
    LET cacheFile == getCacheFilePath(packageName, commitHash)
        rec == [data |-> MarshalCached(packageName, commitHash, t, a), modTime |-> t]
    IN  IF WriteFileFails(commitHash)
        THEN fs
        ELSE [p \in DOMAIN fs \cup {cacheFile} |-> IF p = cacheFile THEN rec ELSE fs[p]]

\* info.ModTime().Before(cutoffTime)
Expired(modTime, cutoffTime) == modTime < cutoffTime

\* CleanExpiredCache: every .json file whose ModTime is before now - maxAge goes.
CleanExpiredCacheFiles(fs, t, maxAge) ==
    LET cutoffTime == t - maxAge
        gone == {p \in DOMAIN fs : HasSuffixJson(p[2]) /\ Expired(fs[p].modTime, cutoffTime)}
    IN  [p \in DOMAIN fs \ gone |-> fs[p]]

---------------------------------------------------------------------------
(* Calls of the cache API, as the tests of internal/cache make them: any   *)
(* package name, any identifier, any verdict, in any order, with the clock *)
(* free to advance or to be set back between two calls.                    *)

CacheNames == {NameHello, NameSlash, NameUnder}
CacheIds   == {HashA, ShortId, SlashId}

VerdictLow ==
    Analysis(NameHello, EntropyMinimal, EntropyLow,
             <<Finding("Test Finding", EntropyMinimal, EntropyLow, 0)>>,
             "Test recommendation", <<>>)
VerdictHigh ==
    Analysis(NameHello, EntropyHigh, EntropyHigh,
             <<Finding("network_access", EntropyHigh, EntropyHigh, 12)>>,
             "BLOCK", <<"obfuscation">>)
CacheVerdicts == {VerdictLow, VerdictHigh}

Call(op, name, id, maxAge, at, pre, ret) ==
    [op |-> op, name |-> name, id |-> id, maxAge |-> maxAge, at |-> at,
     pre |-> pre, ret |-> ret]

NoCall == Call("none", <<>>, <<>>, 0, 0, <<>>, Ret("none", NoAnalysis))

ModTimes(fs) == [p \in DOMAIN fs |-> fs[p].modTime]

CallGetCachedAnalysis(name, id) ==
    /\ last' = Call("GetCachedAnalysis", name, id, 0, now, <<>>,
                    GetCachedAnalysis(files, name, id))
    /\ UNCHANGED <<files, now, inserted>>
    /\ UNCHANGED runVars

CallIsCached(name, id) ==
    /\ last' = Call("IsCached", name, id, 0, now, <<>>,
                    Ret(IF IsCached(files, name, id) THEN "true" ELSE "false", NoAnalysis))
    /\ UNCHANGED <<files, now, inserted>>
    /\ UNCHANGED runVars

CallSaveAnalysis(name, id, a) ==
    /\ Cardinality(DOMAIN SaveAnalysisFiles(files, now, name, id, a)) <= MaxFiles
    /\ files' = SaveAnalysisFiles(files, now, name, id, a)
    /\ inserted' = IF WriteFileFails(id) THEN inserted ELSE inserted \cup {<<name, id>>}
    /\ last' = Call("SaveAnalysis", name, id, 0, now, <<>>,
                    Ret(IF WriteFileFails(id) THEN "error" ELSE "ok", a))
    /\ UNCHANGED now
    /\ UNCHANGED runVars

CallCleanExpiredCache(maxAge) ==
    /\ files' = CleanExpiredCacheFiles(files, now, maxAge)
    /\ last' = Call("CleanExpiredCache", <<>>, <<>>, maxAge, now, ModTimes(files),
                    Ret("ok", NoAnalysis))
    /\ UNCHANGED <<now, inserted>>
    /\ UNCHANGED runVars

Tick ==
    /\ now < MaxTime
    /\ now' = now + 1
    /\ UNCHANGED <<files, last, inserted>>
    /\ UNCHANGED runVars

\* The wall clock is set back (time.Now() is not monotonic across processes).
ClockSetBack ==
    /\ now > 0
    /\ now' = now - 1
    /\ UNCHANGED <<files, last, inserted>>
    /\ UNCHANGED runVars

\* The state the hash check of GetCachedAnalysis is there for: between two
\* runs a record file is copied or renamed onto the path of another
\* identifier, so the hash it embeds is not the one its name gives.
CorruptRecord(name, id, embedded) ==
    /\ pc = "idle"
    /\ embedded # id
    /\ LET cacheFile == getCacheFilePath(name, id)
           rec == [data |-> MarshalCached(name, embedded, now, VerdictLow),
                   modTime |-> now]
       IN  /\ IF cacheFile \in DOMAIN files THEN files[cacheFile] # rec ELSE TRUE
           /\ files' = [p \in DOMAIN files \cup {cacheFile} |->
                            IF p = cacheFile THEN rec ELSE files[p]]
    /\ UNCHANGED <<now, last, inserted>>
    /\ UNCHANGED runVars

---------------------------------------------------------------------------
(* The decision gate: handleAnalysisResult (internal/cmd/root.go). *)

Range(seq) == {seq[i] : i \in 1..Len(seq)}

GateDecisionWarnFirst(level, c) ==
    IF level >= c.WarnLevel THEN "WARN"
    ELSE IF level >= c.BlockLevel THEN "BLOCK"
    ELSE "PROCEED"

GateDecisionWarnOffByOne(level, c) ==
    IF level >= c.BlockLevel THEN "BLOCK"
    ELSE IF level + 1 >= c.WarnLevel THEN "WARN"
    ELSE "PROCEED"

\* The two threshold tests, in the order the code makes them.
GateDecision(level, c) ==
    IF level >= c.BlockLevel THEN "BLOCK"
    ELSE IF level >= c.WarnLevel THEN "WARN"
    ELSE "PROCEED"

UserAcceptsUnlessNo(r) == r \notin {"n", "N"}

\* response != "y" && response != "Y" cancels.
UserAccepts(r) == r \in {"y", "Y"}

\* What the "Detailed Security Analysis" loop prints, one item per finding.
Line(kind) == [kind |-> kind, finding |-> Finding("", 0, 0, 0)]
FindingLines(a) ==
    [i \in 1..Len(a.Findings) |-> [kind |-> "FINDING", finding |-> a.Findings[i]]]

AfterDecideInstallAfterFirst(err, i, n) ==
    IF err # "nil" THEN "done" ELSE "install"

AfterDecideIgnoringError(err, i, n) ==
    IF i < n THEN "getinfo" ELSE "install"

\* runInstall's loop over the packages: an error from analyzeAndDecide ends
\* the run, nil moves to the next package, and after the last to the install.
AfterDecide(err, i, n) ==
    IF err # "nil" THEN "done"
    ELSE IF i < n THEN "getinfo" ELSE "install"

\* analyzeAndDecide returns err to runInstall.
Return(err) ==
    /\ pc' = AfterDecide(err, idx, Len(operation.Packages))
    /\ idx' = IF AfterDecide(err, idx, Len(operation.Packages)) = "getinfo"
              THEN idx + 1 ELSE idx
    /\ result' = IF err # "nil" THEN err ELSE result

HandleAnalysisResultByRecommendation ==
    /\ pc = "gate"
    /\ LET d == IF analysis.Recommendation = "BLOCK" THEN "BLOCK"
                ELSE GateDecision(analysis.OverallLevel, cfg)
       IN  CASE d = "BLOCK" ->
                  /\ out' = out \o <<Line("BLOCKED")>>
                  /\ gate' = "BLOCKED"
                  /\ Return("blocked")
             [] d = "WARN" /\ ~cfg.AutoProceed ->
                  /\ out' = out \o FindingLines(analysis) \o <<Line("WARNING"), Line("PROMPT")>>
                  /\ gate' = "WARNED"
                  /\ pc' = "confirm"
                  /\ UNCHANGED <<idx, result>>
             [] d = "WARN" /\ cfg.AutoProceed ->
                  /\ out' = out \o FindingLines(analysis) \o <<Line("WARNING"), Line("APPROVED")>>
                  /\ gate' = "PROCEED"
                  /\ Return("nil")
             [] d = "PROCEED" ->
                  /\ out' = out \o FindingLines(analysis) \o <<Line("APPROVED")>>
                  /\ gate' = "PROCEED"
                  /\ Return("nil")
    /\ UNCHANGED <<cfg, operation, pkgInfo, analysis, aiCalls, fromCache,
                   installed, response, analysed, ctxDone, cacheManager,
                   recordFile, call>>
    /\ UNCHANGED cacheVars

\* handleAnalysisResult: the block test, the findings, the warn test and the
\* prompt; only analysis.OverallLevel is compared with the thresholds.
HandleAnalysisResult ==
    /\ pc = "gate"
    /\ LET d == GateDecision(analysis.OverallLevel, cfg)
       IN  CASE d = "BLOCK" ->
                  /\ out' = out \o <<Line("BLOCKED")>>
                  /\ gate' = "BLOCKED"
                  /\ Return("blocked")
             [] d = "WARN" /\ ~cfg.AutoProceed ->
                  /\ out' = out \o FindingLines(analysis) \o <<Line("WARNING"), Line("PROMPT")>>
                  /\ gate' = "WARNED"
                  /\ pc' = "confirm"
                  /\ UNCHANGED <<idx, result>>
             [] d = "WARN" /\ cfg.AutoProceed ->
                  /\ out' = out \o FindingLines(analysis) \o <<Line("WARNING"), Line("APPROVED")>>
                  /\ gate' = "PROCEED"
                  /\ Return("nil")
             [] d = "PROCEED" ->
                  /\ out' = out \o FindingLines(analysis) \o <<Line("APPROVED")>>
                  /\ gate' = "PROCEED"
                  /\ Return("nil")
    /\ UNCHANGED <<cfg, operation, pkgInfo, analysis, aiCalls, fromCache,
                   installed, response, analysed, ctxDone, cacheManager,
                   recordFile, call>>
    /\ UNCHANGED cacheVars

\* fmt.Scanln(&response) returns at the prompt.
UserResponse(r) ==
    /\ pc = "confirm"
    /\ response' = r
    /\ IF UserAccepts(r)
       THEN /\ out' = out \o <<Line("APPROVED")>>
            /\ gate' = "PROCEED"
            /\ Return("nil")
       ELSE /\ out' = out
            /\ gate' = "CANCELLED"
            /\ Return("cancelled")
    /\ UNCHANGED <<cfg, operation, pkgInfo, analysis, aiCalls, fromCache,
                   installed, analysed, ctxDone, cacheManager,
                   recordFile, call>>
    /\ UNCHANGED cacheVars

Responses == {"y", "Y", "n", "", "yes"}

---------------------------------------------------------------------------
(* The version resolver: GetLatestCommitHash and ValidateCommitHash        *)
(* (internal/aur/git.go).  A string is a sequence of runes; len() counts   *)
(* bytes and range yields runes.                                           *)

RuneE9 == "U+00E9"

\* UTF-8 width of a rune.
Width(ch) == IF ch = RuneE9 THEN 2 ELSE 1

RECURSIVE ByteLen(_)
ByteLen(str) == IF str = <<>> THEN 0 ELSE Width(Head(str)) + ByteLen(Tail(str))

\* The code point of each rune the inputs use.
CodePoint(ch) ==
    CASE ch = "\t" -> 9  [] ch = "\n" -> 10 [] ch = " " -> 32
      [] ch = "/" -> 47 [] ch = "0" -> 48 [] ch = "5" -> 53 [] ch = "9" -> 57
      [] ch = ":" -> 58 [] ch = "@" -> 64 [] ch = "A" -> 65 [] ch = "C" -> 67
      [] ch = "D" -> 68 [] ch = "E" -> 69
      [] ch = "F" -> 70 [] ch = "G" -> 71 [] ch = "H" -> 72 [] ch = "_" -> 95
      [] ch = "a" -> 97 [] ch = "b" -> 98 [] ch = "c" -> 99 [] ch = "f" -> 102 [] ch = "g" -> 103
      [] ch = "z" -> 122 [] ch = RuneE9 -> 233

IsHexLowerOnly(ch) ==
    \/ (CodePoint(ch) >= CodePoint("0") /\ CodePoint(ch) <= CodePoint("9"))
    \/ (CodePoint(ch) >= CodePoint("a") /\ CodePoint(ch) <= CodePoint("f"))

\* (char >= '0' && char <= '9') || (char >= 'a' && char <= 'f') || (char >= 'A' && char <= 'F')
IsHex(ch) ==
    \/ (CodePoint(ch) >= CodePoint("0") /\ CodePoint(ch) <= CodePoint("9"))
    \/ (CodePoint(ch) >= CodePoint("a") /\ CodePoint(ch) <= CodePoint("f"))
    \/ (CodePoint(ch) >= CodePoint("A") /\ CodePoint(ch) <= CodePoint("F"))

ValidateCommitHash(hash) ==
    IF ByteLen(hash) # HashLen THEN FALSE
    ELSE \A i \in 1..Len(hash) : IsHex(hash[i])

\* unicode.IsSpace on the runes the inputs use.
IsSpace(ch) == ch \in {" ", "\t", "\n"}

\* strings.TrimSpace
TrimSpace(str) ==
    IF \A i \in 1..Len(str) : IsSpace(str[i]) THEN <<>>
    ELSE SubSeq(str,
                CHOOSE i \in 1..Len(str) :
                    ~IsSpace(str[i]) /\ \A j \in 1..(i - 1) : IsSpace(str[j]),
                CHOOSE i \in 1..Len(str) :
                    ~IsSpace(str[i]) /\ \A j \in (i + 1)..Len(str) : IsSpace(str[j]))

\* strings.Split(str, "\n")[0]
FirstLine(str) ==
    IF \E i \in 1..Len(str) : str[i] = "\n"
    THEN SubSeq(str, 1, (CHOOSE i \in 1..Len(str) :
                            str[i] = "\n" /\ \A j \in 1..(i - 1) : str[j] # "\n") - 1)
    ELSE str

\* strings.Fields(line): the number of fields is 0 exactly when the line holds
\* no rune that is not a space, and parts[0] is its first run of such runes.
NoFields(line) == \A i \in 1..Len(line) : IsSpace(line[i])

FirstField(line) ==
    LET a == CHOOSE i \in 1..Len(line) :
                ~IsSpace(line[i]) /\ \A j \in 1..(i - 1) : IsSpace(line[j])
        b == CHOOSE i \in a..Len(line) :
                (\A j \in a..i : ~IsSpace(line[j]))
                /\ (i = Len(line) \/ IsSpace(line[i + 1]))
    IN  SubSeq(line, a, b)

HashRet(kind, hash) == [kind |-> kind, hash |-> hash]

\* GetLatestCommitHash on the exit status and the output of git ls-remote.
GetLatestCommitHash(ok, output) ==
    IF ~ok THEN HashRet("error", <<>>)
    ELSE LET line == FirstLine(TrimSpace(output))
         IN  IF NoFields(line) THEN HashRet("error", <<>>)
             ELSE IF ByteLen(FirstField(line)) # HashLen THEN HashRet("error", <<>>)
             ELSE HashRet("ok", FirstField(line))

(* Identifiers one rune away from forty 'a's, and one rune shorter or      *)
(* longer; outputs of git ls-remote that carry them.                       *)

SampleRunes ==
    {"0", "5", "9", "a", "c", "f", "A", "C", "F", "/", ":", "@", "G", "_", "g",
     "z", RuneE9}

WithRune(str, i, ch) == [k \in 1..Len(str) |-> IF k = i THEN ch ELSE str[k]]

HashCandidates ==
    {<<>>}
        \cup {WithRune(Rep("a", n), i, ch) :
                n \in (HashLen - 1)..(HashLen + 1), i \in {1, HashLen - 1},
                ch \in SampleRunes}

TabHead == <<"\t", "H", "E", "A", "D", "\n">>

LsRemoteOutputs ==
    {<<>>, <<"\n">>, <<" ", "\n">>}
        \cup {lead \o h \o TabHead : lead \in {<<>>, <<"\n">>}, h \in HashCandidates}

CallValidateCommitHash(hash) ==
    /\ last = NoCall
    /\ last' = [op |-> "ValidateCommitHash", hash |-> hash,
                ret |-> ValidateCommitHash(hash)]
    /\ UNCHANGED <<files, now, inserted>>
    /\ UNCHANGED runVars

CallGetLatestCommitHash(ok, output) ==
    /\ last = NoCall
    /\ last' = [op |-> "GetLatestCommitHash", ok |-> ok, output |-> output,
                ret |-> GetLatestCommitHash(ok, output)]
    /\ UNCHANGED <<files, now, inserted>>
    /\ UNCHANGED runVars

---------------------------------------------------------------------------
(* The provider's answer and its parser: parseAnalysisResponse and         *)
(* parseSecurityEntropy (internal/providers/claude.go).  A response is a   *)
(* sequence of tokens: "{", "}", a run of other text, or one member of a   *)
(* JSON object with its key, its string value and, for "findings", its     *)
(* array of objects.                                                       *)

Tok(kind, key, value, findings) ==
    [kind |-> kind, key |-> key, value |-> value, findings |-> findings]

Open == Tok("{", "", <<>>, <<>>)
Close == Tok("}", "", <<>>, <<>>)
Text == Tok("text", "", <<>>, <<>>)
Member(key, value) == Tok("member", key, value, <<>>)
FindingsMember(findings) == Tok("member", "findings", <<>>, findings)

\* One object of the "findings" array: its "entropy" and "severity" strings.
RawFinding(entropy, severity) == [entropy |-> entropy, severity |-> severity]

WordMinimal  == <<"M", "I", "N", "I", "M", "A", "L">>
WordSafe     == <<"S", "A", "F", "E">>
WordLow      == <<"L", "O", "W">>
WordModerate == <<"M", "O", "D", "E", "R", "A", "T", "E">>
WordMedium   == <<"M", "E", "D", "I", "U", "M">>
WordHigh     == <<"H", "I", "G", "H">>
WordCritical == <<"C", "R", "I", "T", "I", "C", "A", "L">>
WordHighLower == <<"h", "i", "g", "h">>
WordUnknown  == <<"S", "E", "V", "E", "R", "E">>

LowerCase == <<"a", "c", "d", "e", "g", "h", "i", "l", "m", "n", "o", "r", "s", "t", "u", "v", "w">>
UpperCase == <<"A", "C", "D", "E", "G", "H", "I", "L", "M", "N", "O", "R", "S", "T", "U", "V", "W">>

\* strings.ToUpper
ToUpper(str) ==
    [i \in 1..Len(str) |->
        IF \E k \in 1..Len(LowerCase) : LowerCase[k] = str[i]
        THEN UpperCase[CHOOSE k \in 1..Len(LowerCase) : LowerCase[k] = str[i]]
        ELSE str[i]]

parseSecurityEntropyDefaultMinimal(level) ==
    LET u == ToUpper(level)
    IN  IF u \in {WordMinimal, WordSafe} THEN EntropyMinimal
        ELSE IF u \in {WordLow} THEN EntropyLow
        ELSE IF u \in {WordModerate, WordMedium} THEN EntropyModerate
        ELSE IF u \in {WordHigh} THEN EntropyHigh
        ELSE IF u \in {WordCritical} THEN EntropyCritical
        ELSE EntropyMinimal

parseSecurityEntropy(level) ==
    LET u == ToUpper(level)
    IN  IF u \in {WordMinimal, WordSafe} THEN EntropyMinimal
        ELSE IF u \in {WordLow} THEN EntropyLow
        ELSE IF u \in {WordModerate, WordMedium} THEN EntropyModerate
        ELSE IF u \in {WordHigh} THEN EntropyHigh
        ELSE IF u \in {WordCritical} THEN EntropyCritical
        ELSE EntropyModerate

\* The labels parseSecurityEntropy is applied to: every spelling of the seven
\* words in upper and lower case letters, and labels that are none of them
\* (the empty label, another word, a word cut short, a word with a space).
ToLowerRune(ch) ==
    IF \E k \in 1..Len(UpperCase) : UpperCase[k] = ch
    THEN LowerCase[CHOOSE k \in 1..Len(UpperCase) : UpperCase[k] = ch]
    ELSE ch

CaseVariants(w) ==
    {[i \in 1..Len(w) |-> IF i \in S THEN ToLowerRune(w[i]) ELSE w[i]] :
        S \in SUBSET (1..Len(w))}

RecognisedWords ==
    {WordMinimal, WordSafe, WordLow, WordModerate, WordMedium, WordHigh, WordCritical}

OtherLabels ==
    {<<>>, WordUnknown, <<"0">>}
        \cup {SubSeq(w, 1, k) : w \in RecognisedWords, k \in 1..3}
        \cup {w \o <<" ">> : w \in RecognisedWords}
        \cup {<<" ">> \o w : w \in RecognisedWords}

EntropyLabels == UNION {CaseVariants(w) : w \in RecognisedWords} \cup OtherLabels

CallParseSecurityEntropy(level) ==
    /\ last = NoCall
    /\ last' = [op |-> "parseSecurityEntropy", level |-> level,
                ret |-> parseSecurityEntropy(level)]
    /\ UNCHANGED <<files, now, inserted>>
    /\ UNCHANGED runVars

\* strings.Index(response, "{") and strings.LastIndex(response, "}"), counted
\* from 1; 0 stands for Go's -1.
IndexOpen(output) ==
    IF \E i \in 1..Len(output) : output[i] = Open
    THEN CHOOSE i \in 1..Len(output) :
            output[i] = Open /\ \A j \in 1..(i - 1) : output[j] # Open
    ELSE 0

LastIndexClose(output) ==
    IF \E i \in 1..Len(output) : output[i] = Close
    THEN CHOOSE i \in 1..Len(output) :
            output[i] = Close /\ \A j \in (i + 1)..Len(output) : output[j] # Close
    ELSE 0

\* json.Unmarshal accepts the text of one object: the braces around members.
ValidJson(jsonStr) ==
    /\ Len(jsonStr) >= 2
    /\ jsonStr[1] = Open
    /\ jsonStr[Len(jsonStr)] = Close
    /\ \A i \in 2..(Len(jsonStr) - 1) : jsonStr[i].kind = "member"

\* The string field of analysisData for a key: the last member of that name,
\* or the zero value.
StringField(jsonStr, key) ==
    IF \E i \in 1..Len(jsonStr) : jsonStr[i].key = key
    THEN jsonStr[CHOOSE i \in 1..Len(jsonStr) :
                    jsonStr[i].key = key
                    /\ \A j \in (i + 1)..Len(jsonStr) : jsonStr[j].key # key].value
    ELSE <<>>

FindingsField(jsonStr) ==
    IF \E i \in 1..Len(jsonStr) : jsonStr[i].key = "findings"
    THEN jsonStr[CHOOSE i \in 1..Len(jsonStr) :
                    jsonStr[i].key = "findings"
                    /\ \A j \in (i + 1)..Len(jsonStr) : jsonStr[j].key # "findings"].findings
    ELSE <<>>

\* The loop over analysisData.Findings.
ConvertFinding(finding) ==
    LET entropy == IF parseSecurityEntropy(finding.entropy) = EntropyMinimal
                   THEN parseSecurityEntropy(finding.severity)
                   ELSE parseSecurityEntropy(finding.entropy)
    IN  Finding("", entropy, entropy, 0)

parseAnalysisResponse(output, name) ==
    LET jsonStart == IndexOpen(output)
        jsonEnd == LastIndexClose(output)
    IN  IF jsonStart = 0 \/ jsonEnd = 0 THEN Ret("error", NoAnalysis)
        ELSE IF jsonEnd + 1 < jsonStart THEN Ret("panic", NoAnalysis)
        ELSE LET jsonStr == SubSeq(output, jsonStart, jsonEnd)
             IN  IF ~ValidJson(jsonStr) THEN Ret("error", NoAnalysis)
                 ELSE LET first == parseSecurityEntropy(StringField(jsonStr, "overall_entropy"))
                          overallEntropy ==
                            IF first = EntropyMinimal
                                    /\ StringField(jsonStr, "overall_level") # <<>>
                            THEN parseSecurityEntropy(StringField(jsonStr, "overall_level"))
                            ELSE first
                          raw == FindingsField(jsonStr)
                      IN  Ret("ok", Analysis(name, overallEntropy, overallEntropy,
                                             [i \in 1..Len(raw) |-> ConvertFinding(raw[i])],
                                             "", <<>>))

(* Answers of the provider: an object with or without each severity       *)
(* member and with or without findings, alone or inside other text, and    *)
(* answers that hold no object.                                            *)

LevelWords ==
    {WordMinimal, WordSafe, WordLow, WordModerate, WordMedium, WordHigh,
     WordCritical, WordHighLower, WordUnknown}

FindingWords == {<<>>, WordLow, WordHigh, WordCritical}

RawFindings == {RawFinding(e, v) : e \in FindingWords, v \in FindingWords}

SeverityMembers(key) ==
    {<<>>} \cup {<<Member(key, w)>> : w \in LevelWords \cup {<<>>}}

FindingsMembers ==
    {<<>>, <<FindingsMember(<<>>)>>}
        \cup {<<FindingsMember(fs)>> :
                fs \in UNION {[1..k -> RawFindings] : k \in 1..MaxFindings}}

Objects ==
    {<<Open>> \o e \o l \o f \o <<Close>> :
        e \in SeverityMembers("overall_entropy"),
        l \in SeverityMembers("overall_level"),
        f \in FindingsMembers}

NoObjects ==
    {<<>>, <<Text>>, <<Open>>, <<Close>>, <<Open, Text>>, <<Text, Close>>,
     <<Close, Open>>, <<Close, Text, Open>>, <<Open, Text, Close>>,
     <<Open, Open, Close>>, <<Open, Member("overall_entropy", WordHigh)>>}

Answers ==
    Objects \cup NoObjects
        \cup {<<Text>> \o o \o <<Text>> :
                o \in {<<Open, Close>>,
                       <<Open, Member("overall_entropy", WordLow), Close>>,
                       <<Open, Member("overall_level", WordCritical), Close>>}}

CallParseAnalysisResponse(output) ==
    /\ last = NoCall
    /\ last' = [op |-> "parseAnalysisResponse", output |-> output,
                ret |-> parseAnalysisResponse(output, NameHello)]
    /\ UNCHANGED <<files, now, inserted>>
    /\ UNCHANGED runVars

---------------------------------------------------------------------------
(* The install pipeline: runInstall and analyzeAndDecide                   *)
(* (internal/cmd/root.go), with the version resolver                       *)
(* (internal/aur/fetcher.go, git.go) and the yay client (internal/yay).    *)

\* No package under evaluation.
Idle == [Name |-> <<>>, PKGBUILD |-> <<>>, Version |-> <<>>, CommitHash |-> <<>>]

NoConfig ==
    [BlockLevel |-> 0, WarnLevel |-> 0, AutoProceed |-> FALSE, CacheEnabled |-> FALSE]
NoOperation == [Command |-> <<>>, Operation |-> "", Packages |-> <<>>]

\* config.Load returns these values whatever the configuration file holds.
Load ==
    [BlockLevel |-> EntropyCritical, WarnLevel |-> EntropyModerate,
     AutoProceed |-> FALSE, CacheEnabled |-> TRUE]

FlagS == <<"-", "S">>
FlagR == <<"-", "R">>
PkgVer == <<"1", ".", "2", ".", "3">>
FallbackPrefix == <<"f", "a", "l", "l", "b", "a", "c", "k", "-">>

\* A PKGBUILD is its assignments in the order of the text, each the field
\* and the value the regular expression of extractPKGBUILDField captures.
\* Two texts of one package that declare the same pkgver and differ in what
\* build() runs.
Assignment(field, value) == [field |-> field, value |-> value]
PkgbuildFirst   == <<Assignment("pkgver", PkgVer), Assignment("build", <<"m", "a", "k", "e">>)>>
PkgbuildChanged == <<Assignment("pkgver", PkgVer), Assignment("build", <<"c", "u", "r", "l">>)>>

RECURSIVE JoinValues(_)
JoinValues(pkgbuild) ==
    IF pkgbuild = <<>> THEN <<>> ELSE Head(pkgbuild).value \o JoinValues(Tail(pkgbuild))

extractPKGBUILDFieldWholeText(pkgbuild, field) == JoinValues(pkgbuild)

\* extractPKGBUILDField: the first match of field = value, "" without one.
extractPKGBUILDField(pkgbuild, field) ==
    IF \E i \in 1..Len(pkgbuild) : pkgbuild[i].field = field
    THEN pkgbuild[CHOOSE i \in 1..Len(pkgbuild) :
                    /\ pkgbuild[i].field = field
                    /\ \A j \in 1..(i - 1) : pkgbuild[j].field # field].value
    ELSE <<>>

HasPrefix(str, pre) == Len(str) >= Len(pre) /\ SubSeq(str, 1, Len(pre)) = pre
IsFlag(arg) == HasPrefix(arg, <<"-">>)
NotFlag(arg) == ~IsFlag(arg)

ParseYayCommand(args) ==
    IF Len(args) = 0
    THEN [Command |-> <<"-", "S", "y", "u">>, Operation |-> "upgrade", Packages |-> <<>>]
    ELSE IF IsFlag(args[1])
    THEN [Command |-> args[1],
          Operation |-> IF HasPrefix(args[1], FlagS) THEN "install"
                        ELSE IF HasPrefix(args[1], FlagR) THEN "remove"
                        ELSE IF HasPrefix(args[1], <<"-", "U">>) THEN "upgrade"
                        ELSE "other",
          Packages |-> SelectSeq(Tail(args), NotFlag)]
    ELSE [Command |-> FlagS, Operation |-> "install", Packages |-> args]

FallbackIdNoVersion(name, version) == FallbackPrefix \o name

\* EnrichPackageInfo: the resolved hash, or the fallback identifier.
FallbackId(name, version) == FallbackPrefix \o name \o <<"-">> \o version

\* What the provider returns for a package: parseAnalysisResponse sets both
\* severity fields to the parsed level and PackageName to pkgInfo.Name.
ProviderVerdict(name, level) ==
    Analysis(name, level, level,
             IF level = EntropyMinimal THEN <<>>
             ELSE <<Finding("suspicious_command", level, level, 7)>>,
             IF level >= EntropyHigh THEN "BLOCK"
             ELSE IF level >= EntropyModerate THEN "REVIEW" ELSE "PROCEED",
             <<>>)

\* cfg.Cache.Enabled && pkgInfo.CommitHash != "", the part of the cache
\* conditions of analyzeAndDecide that does not look at cacheManager.
UseCacheIgnoresEnabled(c, commitHash) == commitHash # <<>>

UseCache(c, commitHash) == c.CacheEnabled /\ commitHash # <<>>

Key == <<pkgInfo.Name, pkgInfo.CommitHash>>

PipelineNames == {NameHello, NameFoo}

\* The severities the provider answers with in the pipeline: one below both
\* of Load's thresholds, one between them, one at the block threshold.
PipelineLevels == {EntropyMinimal, EntropyHigh, EntropyCritical}

SeqsUpTo(S, n) == UNION {[1..k -> S] : k \in 1..n}

CommandLines ==
    {<<>>, <<FlagR, NameHello>>} \cup SeqsUpTo(PipelineNames, MaxPkgs)
        \cup {<<FlagS>> \o l : l \in SeqsUpTo(PipelineNames, 1)}

\* runInstall up to the analysis loop.  setup stands for the steps that can
\* end the run before any package is analysed (yay missing, search failed,
\* provider unknown or not authenticated).
RunInstall(args, skipAnalysis, setup) ==
    /\ pc = "idle"
    /\ cfg' = Load
    /\ operation' = ParseYayCommand(args)
    /\ pkgInfo' = Idle
    /\ analysis' = NoAnalysis
    /\ gate' = "none"
    /\ out' = <<>>
    /\ aiCalls' = 0
    /\ fromCache' = FALSE
    /\ installed' = 0
    /\ response' = ""
    /\ IF skipAnalysis \/ Len(operation'.Packages) = 0 \/ operation'.Operation # "install"
       THEN /\ pc' = "install"
            /\ idx' = 0
            /\ result' = "none"
       ELSE IF setup # "ok"
       THEN /\ pc' = "done"
            /\ idx' = 0
            /\ result' = "failed"
       ELSE /\ pc' = "getinfo"
            /\ idx' = 1
            /\ result' = "none"
    /\ ctxDone' = FALSE
    /\ cacheManager' = TRUE
    /\ UNCHANGED <<recordFile, call>>
    /\ UNCHANGED analysed
    /\ UNCHANGED cacheVars

\* yayClient.InstallPackages runs yay and returns its status; a command of a
\* context that is done does not succeed.
InstallPackages(ok) ==
    /\ pc = "install"
    /\ ctxDone => ~ok
    /\ installed' = installed + 1
    /\ result' = IF ok THEN "installed" ELSE "failed"
    /\ pc' = "done"
    /\ UNCHANGED <<cfg, operation, idx, pkgInfo, analysis, gate, out, aiCalls,
                   fromCache, response, analysed, ctxDone, cacheManager,
                   recordFile, call>>
    /\ UNCHANGED cacheVars

\* analyzeAndDecide, first step: yayClient.GetPackageInfo, which runs
\* yay -G --print and takes pkgbuild from its output.
GetPackageInfoOf(ok, pkgbuild) ==
    /\ pc = "getinfo"
    /\ ctxDone => ~ok
    /\ analysis' = NoAnalysis
    /\ gate' = "none"
    /\ out' = <<>>
    /\ aiCalls' = 0
    /\ fromCache' = FALSE
    /\ response' = ""
    /\ IF ok
       THEN /\ pkgInfo' = [Name |-> operation.Packages[idx], PKGBUILD |-> pkgbuild,
                           Version |-> extractPKGBUILDField(pkgbuild, "pkgver"),
                           CommitHash |-> <<>>]
            /\ pc' = "enrich"
            /\ UNCHANGED <<idx, result>>
       ELSE /\ pkgInfo' = Idle
            /\ Return("failed")
    /\ cacheManager' = TRUE
    /\ UNCHANGED <<recordFile, call>>
    /\ UNCHANGED <<cfg, operation, installed, analysed, ctxDone>>
    /\ UNCHANGED cacheVars

\* GetPackageInfo when yay prints the recipe as it was first published.
GetPackageInfo(ok) == GetPackageInfoOf(ok, PkgbuildFirst)

\* aurFetcher.EnrichPackageInfo: GetLatestCommitHash answers with a hash or
\* fails (it does when the context is done), and on every failure the
\* fallback identifier is set and nil is returned.
EnrichPackageInfo(resolved, commitHash) ==
    /\ pc = "enrich"
    /\ ctxDone => ~resolved
    /\ pkgInfo' = [pkgInfo EXCEPT !.CommitHash =
                        IF resolved THEN commitHash
                        ELSE FallbackId(pkgInfo.Name, pkgInfo.Version)]
    /\ pc' = "lookup"
    /\ UNCHANGED <<cfg, operation, idx, analysis, gate, out, aiCalls, fromCache,
                   installed, result, response, analysed, ctxDone, cacheManager,
                   recordFile, call>>
    /\ UNCHANGED cacheVars

\* cache.NewCacheManager, whose failure leaves cacheManager nil with a warning,
\* and the cache check of analyzeAndDecide; pkgInfo.CommitHash[:8] is printed
\* on both branches of the check.
NewCacheManagerAndLookup(created) ==
    /\ pc = "lookup"
    /\ cacheManager' = created
    /\ UNCHANGED <<recordFile, call>>
    /\ IF created /\ UseCache(cfg, pkgInfo.CommitHash)
       THEN LET r == GetCachedAnalysis(files, pkgInfo.Name, pkgInfo.CommitHash)
            IN  IF r.kind = "panic" \/ Len(pkgInfo.CommitHash) < 8
                THEN /\ pc' = "done"
                     /\ result' = "panic"
                     /\ UNCHANGED <<analysis, fromCache>>
                ELSE IF r.kind = "hit"
                THEN /\ analysis' = r.analysis
                     /\ fromCache' = TRUE
                     /\ pc' = "gate"
                     /\ UNCHANGED result
                ELSE /\ pc' = "analyze"
                     /\ UNCHANGED <<analysis, fromCache, result>>
       ELSE /\ pc' = "analyze"
            /\ UNCHANGED <<analysis, fromCache, result>>
    /\ UNCHANGED <<cfg, operation, idx, pkgInfo, gate, out, aiCalls, installed,
                   response, analysed, ctxDone>>
    /\ UNCHANGED cacheVars

\* The cache check when the cache directory can be made.
CacheLookup == NewCacheManagerAndLookup(TRUE)

ProviderReturnsDefaultVerdict(ok, a) ==
    /\ pc = "analyze"
    /\ ctxDone => ~ok
    /\ aiCalls' = aiCalls + 1
    /\ analysis' = IF ok THEN a
                   ELSE Analysis(pkgInfo.Name, EntropyModerate, EntropyModerate,
                                 <<>>, "", <<>>)
    /\ pc' = "gate"
    /\ UNCHANGED <<idx, result, files, inserted, analysed>>
    /\ UNCHANGED <<cfg, operation, pkgInfo, gate, out, fromCache, installed, response,
                   ctxDone, cacheManager,
                   recordFile, call>>
    /\ UNCHANGED <<now, last>>

ProviderReturnsSaveErrorAborts(ok, a) ==
    /\ pc = "analyze"
    /\ ctxDone => ~ok
    /\ aiCalls' = aiCalls + 1
    /\ IF ~ok \/ (cacheManager /\ UseCache(cfg, pkgInfo.CommitHash)
                    /\ WriteFileFails(pkgInfo.CommitHash))
       THEN /\ Return("failed")
            /\ UNCHANGED <<analysis, analysed, files, inserted>>
       ELSE /\ analysis' = a
            /\ pc' = "gate"
            /\ UNCHANGED <<idx, result>>
            /\ IF cacheManager /\ UseCache(cfg, pkgInfo.CommitHash)
               THEN /\ files' = SaveAnalysisFiles(files, now, pkgInfo.Name,
                                                  pkgInfo.CommitHash, a)
                    /\ inserted' = inserted \cup {Key}
                    /\ analysed' = [k \in DOMAIN analysed \cup {Key} |->
                                        IF k = Key THEN a ELSE analysed[k]]
               ELSE UNCHANGED <<files, inserted, analysed>>
    /\ UNCHANGED <<cfg, operation, pkgInfo, gate, out, fromCache, installed, response,
                   ctxDone, cacheManager,
                   recordFile, call>>
    /\ UNCHANGED <<now, last>>

ProviderReturnsSavesBelowBlock(ok, a) ==
    /\ pc = "analyze"
    /\ ctxDone => ~ok
    /\ aiCalls' = aiCalls + 1
    /\ IF ~ok
       THEN /\ Return("failed")
            /\ UNCHANGED <<analysis, analysed, files, inserted>>
       ELSE /\ analysis' = a
            /\ pc' = "gate"
            /\ UNCHANGED <<idx, result>>
            /\ IF cacheManager /\ UseCache(cfg, pkgInfo.CommitHash)
                    /\ ~WriteFileFails(pkgInfo.CommitHash)
                    /\ a.OverallLevel < cfg.BlockLevel
               THEN /\ files' = SaveAnalysisFiles(files, now, pkgInfo.Name,
                                                  pkgInfo.CommitHash, a)
                    /\ inserted' = inserted \cup {Key}
                    /\ analysed' = [k \in DOMAIN analysed \cup {Key} |->
                                        IF k = Key THEN a ELSE analysed[k]]
               ELSE UNCHANGED <<files, inserted, analysed>>
    /\ UNCHANGED <<cfg, operation, pkgInfo, gate, out, fromCache, installed, response,
                   ctxDone, cacheManager,
                   recordFile, call>>
    /\ UNCHANGED <<now, last>>

\* The provider call returns an error or the verdict a; a verdict is saved to
\* the cache before the gate.
ProviderReturns(ok, a) ==
    /\ pc = "analyze"
    /\ ctxDone => ~ok
    /\ aiCalls' = aiCalls + 1
    /\ IF ~ok
       THEN /\ Return("failed")
            /\ UNCHANGED <<analysis, analysed, files, inserted>>
       ELSE     /\ analysis' = a
                /\ pc' = "gate"
                /\ UNCHANGED <<idx, result>>
                /\ IF cacheManager /\ UseCache(cfg, pkgInfo.CommitHash)
                        /\ WriteFileFails(pkgInfo.CommitHash)
                   THEN UNCHANGED <<files, inserted, analysed>>
                   ELSE IF cacheManager /\ UseCache(cfg, pkgInfo.CommitHash)
                   THEN /\ files' = SaveAnalysisFiles(files, now, pkgInfo.Name,
                                                      pkgInfo.CommitHash, a)
                        /\ inserted' = inserted \cup {Key}
                        /\ analysed' = [k \in DOMAIN analysed \cup {Key} |->
                                            IF k = Key THEN a ELSE analysed[k]]
                   ELSE UNCHANGED <<files, inserted, analysed>>
    /\ UNCHANGED <<cfg, operation, pkgInfo, gate, out, fromCache, installed, response,
                   ctxDone, cacheManager,
                   recordFile, call>>
    /\ UNCHANGED <<now, last>>

\* The provider answers with a well-formed verdict of one severity, or fails.
Analyze(ok, level) == ProviderReturns(ok, ProviderVerdict(pkgInfo.Name, level))

\* AnalyzePKGBUILDWithOptions: the claude command fails, or its output goes
\* through parseAnalysisResponse, whose error is the call's error.
AnalyzePKGBUILD(ok, output) ==
    LET r == parseAnalysisResponse(output, pkgInfo.Name)
    IN  IF ok /\ r.kind = "panic"
        THEN /\ pc = "analyze"
             /\ ~ctxDone
             /\ aiCalls' = aiCalls + 1
             /\ pc' = "done"
             /\ result' = "panic"
             /\ UNCHANGED <<cfg, operation, idx, pkgInfo, analysis, gate, out,
                            fromCache, installed, response, analysed, ctxDone, cacheManager,
                   recordFile, call>>
             /\ UNCHANGED cacheVars
        ELSE ProviderReturns(ok /\ r.kind = "ok", r.analysis)

\* The process exits: nothing of the run is kept but what is on disk.
Exit ==
    /\ pc = "done"
    /\ pc' = "idle"
    /\ cfg' = NoConfig
    /\ operation' = NoOperation
    /\ idx' = 0
    /\ pkgInfo' = Idle
    /\ analysis' = NoAnalysis
    /\ gate' = "none"
    /\ out' = <<>>
    /\ aiCalls' = 0
    /\ fromCache' = FALSE
    /\ installed' = 0
    /\ result' = "none"
    /\ response' = ""
    /\ ctxDone' = FALSE
    /\ cacheManager' = TRUE
    /\ UNCHANGED <<recordFile, call>>
    /\ UNCHANGED analysed
    /\ UNCHANGED cacheVars

\* signal.NotifyContext in main: SIGINT or SIGTERM marks the context done
\* while a command runs; the process itself goes on.
Signal ==
    /\ pc \notin {"idle", "done"}
    /\ ~ctxDone
    /\ ctxDone' = TRUE
    /\ UNCHANGED <<pc, cfg, operation, idx, pkgInfo, analysis, gate, out, aiCalls,
                   fromCache, installed, result, response, analysed, cacheManager,
                   recordFile, call>>
    /\ UNCHANGED cacheVars

---------------------------------------------------------------------------
(* The cache store's listing and statistics (unnamed/part_002):            *)
(* GetPackageVersions and GetCacheStats.                                   *)

NameCache == <<"c", "a", "c", "h", "e">>

\* filepath.Base(c.cacheDir) of the directory NewCacheManager creates.
CacheDirBase == <<"c", "a", "c", "h", "e">>

\* The order of sort.Strings: byte by byte, a proper prefix first.
RECURSIVE StringLess(_, _)
StringLess(s, t) ==
    IF t = <<>> THEN FALSE
    ELSE IF s = <<>> THEN TRUE
    ELSE IF Head(s) = Head(t) THEN StringLess(Tail(s), Tail(t))
    ELSE CodePoint(Head(s)) < CodePoint(Head(t))

\* sort.Strings on a directory listing (file names are distinct).
RECURSIVE SortStrings(_)
SortStrings(S) ==
    IF S = {} THEN <<>>
    ELSE LET m == CHOOSE x \in S : \A y \in S \ {x} : StringLess(x, y)
         IN  <<m>> \o SortStrings(S \ {m})

\* strings.TrimSuffix(entry.Name(), ".json")
TrimSuffixJson(fileName) ==
    IF HasSuffixJson(fileName) THEN SubSeq(fileName, 1, Len(fileName) - 1) ELSE fileName

\* GetPackageVersions: the .json entries of the package directory, without
\* the extension, sorted; an absent directory gives the empty list.
GetPackageVersions(fs, packageName) ==
    LET packageDir == sanitizePackageName(packageName)
        entries == {p[2] : p \in {q \in DOMAIN fs : q[1] = packageDir}}
    IN  SortStrings({TrimSuffixJson(e) : e \in {x \in entries : HasSuffixJson(x)}})

\* The zero time.Time of OldestEntry and NewestEntry.
ZeroTime == 0 - 1

\* GetCacheStats: the walk counts every .json file, and the base name of
\* its directory as a package unless it is the base name of the cache
\* directory.
GetCacheStats(fs) ==
    LET jsonFiles == {p \in DOMAIN fs : HasSuffixJson(p[2])}
        packages == {p[1] : p \in jsonFiles} \ {CacheDirBase}
        times == {fs[p].modTime : p \in jsonFiles}
    IN  [TotalPackages |-> Cardinality(packages),
         TotalAnalyses |-> Cardinality(jsonFiles),
         OldestEntry |-> IF times = {} THEN ZeroTime
                         ELSE CHOOSE t \in times : \A u \in times : t <= u,
         NewestEntry |-> IF times = {} THEN ZeroTime
                         ELSE CHOOSE t \in times : \A u \in times : t >= u]

NamePkgAB == <<"p", "k", "g", "/", "a", ":", "b">>

SanitizeRunes ==
    {"/", "\\", ":", "*", "?", "\"", "<", ">", "|", " ", "_", "p", RuneE9}

SanitizeNames ==
    {NamePkgAB} \cup {<<>>} \cup SeqsUpTo(SanitizeRunes, MaxNameLen)

\* sanitizePackageName on a name, and on what it returned.
CallSanitizePackageName(name) ==
    /\ last = NoCall
    /\ last' = [op |-> "sanitizePackageName", name |-> name,
                ret |-> sanitizePackageName(name),
                again |-> sanitizePackageName(sanitizePackageName(name))]
    /\ UNCHANGED <<files, now, inserted>>
    /\ UNCHANGED runVars

CallGetPackageVersions(name) ==
    /\ last' = Call("GetPackageVersions", name, <<>>, 0, now, <<>>,
                    [kind |-> "ok", versions |-> GetPackageVersions(files, name)])
    /\ UNCHANGED <<files, now, inserted>>
    /\ UNCHANGED runVars

CallGetCacheStats ==
    /\ last' = Call("GetCacheStats", <<>>, <<>>, 0, now, <<>>,
                    [kind |-> "ok", stats |-> GetCacheStats(files)])
    /\ UNCHANGED <<files, now, inserted>>
    /\ UNCHANGED runVars

---------------------------------------------------------------------------
(* The trust analyzer (unnamed/part_005, package trust).  Durations and    *)
(* the age of the last commit are in days; weights, impacts and scores are *)
(* in thousandths, which every constant of the code is a multiple of.      *)

TrustVeryLow  == 0
TrustLow      == 1
TrustMedium   == 2
TrustHigh     == 3
TrustVeryHigh == 4

TrustFactor(type, weight) == [Type |-> type, Weight |-> weight]
RiskIndicator(type, severity, impact) ==
    [Type |-> type, Severity |-> severity, Impact |-> impact]

\* time.Now().AddDate(0, -6, 0) and AddDate(-2, 0, 0), as days before now.
SixMonthsAgo == 183
TwoYearsAgo  == 730

calculateTrustFactors(repo, maintainer) ==
    (IF repo.RepoAge > 365
     THEN <<TrustFactor("repository_age", 300)>> ELSE <<>>)
    \o (IF repo.CommitFrequency > 1 /\ repo.CommitFrequency < 20
        THEN <<TrustFactor("commit_frequency", 200)>> ELSE <<>>)
    \o (IF repo.Contributors > 1
        THEN <<TrustFactor("multiple_contributors", 150)>> ELSE <<>>)
    \o (IF maintainer.ReputationScore > 700
        THEN <<TrustFactor("maintainer_reputation", 250)>> ELSE <<>>)
    \o (IF repo.RepoAge > 180 /\ ~(repo.LastCommitAge > SixMonthsAgo)
        THEN <<TrustFactor("long_term_maintenance", 200)>> ELSE <<>>)

calculateRiskIndicatorsInvertedAge(repo, maintainer) ==
    (IF repo.RepoAge > 7
     THEN <<RiskIndicator("very_new_repository", EntropyHigh, 400)>>
     ELSE IF repo.RepoAge < 30
     THEN <<RiskIndicator("new_repository", EntropyModerate, 200)>> ELSE <<>>)
    \o (IF repo.CommitCount = 1
        THEN <<RiskIndicator("single_commit", EntropyModerate, 300)>> ELSE <<>>)
    \o (IF repo.LastCommitAge > TwoYearsAgo
        THEN <<RiskIndicator("abandoned_package", EntropyLow, 150)>> ELSE <<>>)
    \o (IF maintainer.ReputationScore < 300 /\ maintainer.AccountAge < 90
        THEN <<RiskIndicator("new_low_reputation_maintainer", EntropyModerate, 250)>>
        ELSE <<>>)
    \o (IF repo.CommitFrequency > 50
        THEN <<RiskIndicator("excessive_commits", EntropyLow, 100)>> ELSE <<>>)

calculateRiskIndicators(repo, maintainer) ==
    (IF repo.RepoAge < 7
     THEN <<RiskIndicator("very_new_repository", EntropyHigh, 400)>>
     ELSE IF repo.RepoAge < 30
     THEN <<RiskIndicator("new_repository", EntropyModerate, 200)>> ELSE <<>>)
    \o (IF repo.CommitCount = 1
        THEN <<RiskIndicator("single_commit", EntropyModerate, 300)>> ELSE <<>>)
    \o (IF repo.LastCommitAge > TwoYearsAgo
        THEN <<RiskIndicator("abandoned_package", EntropyLow, 150)>> ELSE <<>>)
    \o (IF maintainer.ReputationScore < 300 /\ maintainer.AccountAge < 90
        THEN <<RiskIndicator("new_low_reputation_maintainer", EntropyModerate, 250)>>
        ELSE <<>>)
    \o (IF repo.CommitFrequency > 50
        THEN <<RiskIndicator("excessive_commits", EntropyLow, 100)>> ELSE <<>>)

\* float64 as calculateOverallTrustScore uses it.  The weights, impacts and
\* breakpoints are decimals in thousandths, none of them a float64 but 0.25,
\* 0.5 and 1; a float64 near q/1000 is [q, d], standing for
\* q/1000 + d * 2^-56 / 125, and every sum is rounded to the nearest float64
\* (ties to even) of its binade.  The program's literals are 0 or at least
\* 0.075 and its sums stay below 4, so the finest spacing is 2^-56.
Pow2(n) == 2 ^ n

\* 2^n modulo 125 for n below 60, in small numbers: 2^10 is 24 modulo 125.
Pow2Mod125(n) == (((24 ^ (n \div 10)) % 125) * (2 ^ (n % 10))) % 125

FloatNeg(x) == [q |-> 0 - x.q, d |-> 0 - x.d]

FloatIsNeg(x) == x.q < 0 \/ (x.q = 0 /\ x.d < 0)

\* x < y
FloatLess(x, y) == x.q < y.q \/ (x.q = y.q /\ x.d < y.d)

\* The binade of x >= 0, counted from [0, 0.125): the spacing there is
\* 2^-56, and doubles with each binade.
Binade(x) ==
    LET AtLeast(t) == x.q > t \/ (x.q = t /\ x.d >= 0)
    IN  IF AtLeast(2000) THEN 5
        ELSE IF AtLeast(1000) THEN 4
        ELSE IF AtLeast(500) THEN 3
        ELSE IF AtLeast(250) THEN 2
        ELSE IF AtLeast(125) THEN 1
        ELSE 0

\* x modulo the spacing 2^(k-56), in units of 2^-56 / 125.
Residue(x, k) ==
    (Pow2(k) * ((x.q * Pow2Mod125(53 - k)) % 125) + x.d) % (125 * Pow2(k))

RoundNonNegative(x) ==
    LET k == Binade(x)
        spacing == 125 * Pow2(k)
        r == Residue(x, k)
        odd == Residue(x, k + 1) >= spacing
    IN  IF 2 * r < spacing \/ (2 * r = spacing /\ ~odd)
        THEN [q |-> x.q, d |-> x.d - r]
        ELSE [q |-> x.q, d |-> x.d + (spacing - r)]

RoundToFloat64(x) ==
    IF FloatIsNeg(x) THEN FloatNeg(RoundNonNegative(FloatNeg(x)))
    ELSE RoundNonNegative(x)

\* The float64 of the decimal literal q/1000.
Float64(q) == RoundToFloat64([q |-> q, d |-> 0])

FloatAdd(x, y) == RoundToFloat64([q |-> x.q + y.q, d |-> x.d + y.d])

FloatSub(x, y) == RoundToFloat64([q |-> x.q - y.q, d |-> x.d - y.d])

\* x * 0.5, which is exact.
FloatHalf(x) == [q |-> x.q \div 2, d |-> x.d \div 2]

\* The two loops of calculateOverallTrustScore, each on the record of its
\* variables: baseScore so far and the elements still to come.
RECURSIVE AddFactors(_)
AddFactors(loop) ==
    IF loop.factors = <<>> THEN loop.baseScore
    ELSE AddFactors(
            [baseScore |-> FloatAdd(loop.baseScore,
                                    FloatHalf(Float64(Head(loop.factors).Weight))),
             factors |-> Tail(loop.factors)])

RECURSIVE SubtractIndicators(_)
SubtractIndicators(loop) ==
    IF loop.indicators = <<>> THEN loop.baseScore
    ELSE SubtractIndicators(
            [baseScore |-> FloatSub(loop.baseScore,
                                    Float64(Head(loop.indicators).Impact)),
             indicators |-> Tail(loop.indicators)])

\* baseScore of calculateOverallTrustScore after the clamp.
BaseScore(factors, indicators) ==
    LET added == AddFactors([baseScore |-> Float64(500), factors |-> factors])
        baseScore == SubtractIndicators([baseScore |-> added, indicators |-> indicators])
    IN  IF FloatLess(baseScore, Float64(0)) THEN Float64(0)
        ELSE IF FloatLess(Float64(1000), baseScore) THEN Float64(1000)
        ELSE baseScore

calculateOverallTrustScore(factors, indicators) ==
    LET baseScore == BaseScore(factors, indicators)
    IN  IF FloatLess(baseScore, Float64(200)) THEN TrustVeryLow
        ELSE IF FloatLess(baseScore, Float64(400)) THEN TrustLow
        ELSE IF FloatLess(baseScore, Float64(600)) THEN TrustMedium
        ELSE IF FloatLess(baseScore, Float64(800)) THEN TrustHigh
        ELSE TrustVeryHigh

\* AnalyzePackageTrust once the repository and the maintainer are known.
AnalyzePackageTrust(repo, maintainer) ==
    LET trustFactors == calculateTrustFactors(repo, maintainer)
        riskIndicators == calculateRiskIndicators(repo, maintainer)
    IN  [OverallTrustScore |-> calculateOverallTrustScore(trustFactors, riskIndicators),
         baseScore |-> BaseScore(trustFactors, riskIndicators),
         TrustFactors |-> trustFactors,
         RiskIndicators |-> riskIndicators]

YoungRepoAge == 5
OldRepoAge   == 400

Repositories ==
    [RepoAge : {YoungRepoAge}, CommitFrequency : {0, 5, 30, 60}, Contributors : {1, 2},
     CommitCount : {1, 10}, LastCommitAge : {7, 200, 800}]

Maintainers == [ReputationScore : {200, 500, 800}, AccountAge : {30, 365}]

\* The analysis of one repository at the two ages, everything else the same.
CallAnalyzePackageTrust(repo, maintainer) ==
    /\ last = NoCall
    /\ last' = [op |-> "AnalyzePackageTrust", repo |-> repo, maintainer |-> maintainer,
                young |-> AnalyzePackageTrust([repo EXCEPT !.RepoAge = YoungRepoAge],
                                              maintainer),
                old |-> AnalyzePackageTrust([repo EXCEPT !.RepoAge = OldRepoAge],
                                            maintainer)]
    /\ UNCHANGED <<files, now, inserted>>
    /\ UNCHANGED runVars

---------------------------------------------------------------------------
(* main (cmd/yay-friend/main.go) and the cobra root command                *)
(* (internal/cmd/root.go).                                                 *)

\* knownCommands of main: the first arguments that go to cobra.
KnownCommands ==
    {<<"a", "n", "a", "l", "y", "z", "e">>,
     <<"c", "o", "n", "f", "i", "g">>,
     <<"p", "r", "o", "v", "i", "d", "e", "r">>,
     <<"t", "e", "s", "t">>,
     <<"h", "e", "l", "p">>,
     <<"c", "o", "m", "p", "l", "e", "t", "i", "o", "n">>,
     <<"-", "-", "h", "e", "l", "p">>,
     <<"-", "h">>}

WordHelp   == <<"h", "e", "l", "p">>
WordStatus == <<"s", "t", "a", "t", "u", "s">>
WordClear  == <<"c", "l", "e", "a", "r">>
FlagYes    == <<"-", "y">>

\* cmd.Execute: cobra runs the subcommand the first argument names, and the
\* root command's RunE, runInstall, when there is none.  Of the subcommands
\* these are modelled: help, which prints the usage and returns, cache
\* status and cache clear -y.
Execute(args, setup) ==
    IF args = <<>>
    THEN RunInstall(args, FALSE, setup)
    ELSE IF args[1] = NameCache /\ Len(args) > 1 /\ args[2] = WordStatus
    THEN CallGetCacheStats
    ELSE IF args[1] = NameCache /\ Len(args) > 2 /\ args[2] = WordClear
            /\ args[3] = FlagYes
    THEN CallCleanExpiredCache(0)
    ELSE /\ pc' = "done"
         /\ cfg' = NoConfig
         /\ operation' = NoOperation
         /\ idx' = 0
         /\ pkgInfo' = Idle
         /\ analysis' = NoAnalysis
         /\ gate' = "none"
         /\ out' = <<>>
         /\ aiCalls' = 0
         /\ fromCache' = FALSE
         /\ installed' = 0
         /\ result' = "none"
         /\ response' = ""
         /\ ctxDone' = FALSE
         /\ cacheManager' = TRUE
         /\ UNCHANGED <<recordFile, call>>
         /\ UNCHANGED analysed
         /\ UNCHANGED cacheVars

\* main: a first argument that is not a known command makes the whole
\* command line a yay-style command, run by runInstall without cobra (so
\* no flag of cobra is parsed and skipAnalysis keeps its default).
Main(args, setup) ==
    /\ pc = "idle"
    /\ IF Len(args) > 0 /\ args[1] \notin KnownCommands
       THEN RunInstall(args, FALSE, setup)
       ELSE Execute(args, setup)

MainArgs ==
    {<<>>, <<WordHelp>>, <<NameCache, WordStatus>>, <<NameCache, WordClear, FlagYes>>,
     <<FlagR, NameHello>>}

---------------------------------------------------------------------------
(* Two processes that evaluate one key at the same time (two yay-friend    *)
(* runs): each goes through the cache check, the provider call and         *)
(* SaveAnalysis of analyzeAndDecide, and os.WriteFile (unnamed/part_002)   *)
(* opens the record file with O_TRUNC and then writes from offset 0 of its *)
(* own file descriptor.  A third process looks the key up at any moment.   *)

Procs == {1, 2}

\* The lines of json.MarshalIndent's output, as many as the record has
\* members to print: a line is known by the record it is of and its place.
EncodedLines(data) ==
    2 + Len(data.analysis["findings"])
      + (IF "entropy_factors" \in DOMAIN data.analysis
         THEN Len(data.analysis["entropy_factors"]) ELSE 0)

Encode(data) == [i \in 1..EncodedLines(data) |-> [of |-> data, line |-> i]]

\* json.Unmarshal takes the text of exactly one record and nothing else.
Decodes(bytes) ==
    /\ bytes # <<>>
    /\ bytes = Encode(bytes[1].of)

\* f.Write(data) at offset 0 of a file that holds bytes.
WriteAtStart(bytes, data) ==
    data \o SubSeq(bytes, Len(data) + 1, Len(bytes))

\* GetCachedAnalysis on the record file as it is now.
LookupRecordFile(f) ==
    IF ~f.exists THEN Ret("miss", NoAnalysis)
    ELSE IF ~Decodes(f.bytes) THEN Ret("error", NoAnalysis)
    ELSE GetCachedAnalysis(
            [path \in {getCacheFilePath(NameHello, HashA)} |->
                [data |-> f.bytes[1].of, modTime |-> 0]],
            NameHello, HashA)

NoRecordFile ==
    [exists |-> FALSE, bytes |-> <<>>,
     p |-> [i \in Procs |-> [pc |-> "lookup", a |-> NoAnalysis]],
     seen |-> {}]

\* The cache check of process i.
ProcLookup(i) ==
    /\ recordFile.p[i].pc = "lookup"
    /\ LET r == LookupRecordFile(recordFile)
       IN  recordFile' =
                IF r.kind = "hit"
                THEN [recordFile EXCEPT !.p[i] = [pc |-> "done", a |-> r.analysis]]
                ELSE [recordFile EXCEPT !.p[i].pc = "analyze"]
    /\ UNCHANGED <<pc, cfg, operation, idx, pkgInfo, analysis, gate, out, aiCalls,
                   fromCache, installed, result, response, analysed, ctxDone,
                   cacheManager, call>>
    /\ UNCHANGED cacheVars

\* The provider answers process i with the verdict a.
ProcAnalyze(i, a) ==
    /\ recordFile.p[i].pc = "analyze"
    /\ recordFile' = [recordFile EXCEPT !.p[i] = [pc |-> "open", a |-> a]]
    /\ UNCHANGED <<pc, cfg, operation, idx, pkgInfo, analysis, gate, out, aiCalls,
                   fromCache, installed, result, response, analysed, ctxDone,
                   cacheManager, call>>
    /\ UNCHANGED cacheVars

\* os.WriteFile, first half: OpenFile(name, O_WRONLY|O_CREATE|O_TRUNC, perm).
ProcOpenFile(i) ==
    /\ recordFile.p[i].pc = "open"
    /\ recordFile' = [recordFile EXCEPT !.exists = TRUE, !.bytes = <<>>,
                                        !.p[i].pc = "write"]
    /\ UNCHANGED <<pc, cfg, operation, idx, pkgInfo, analysis, gate, out, aiCalls,
                   fromCache, installed, result, response, analysed, ctxDone,
                   cacheManager, call>>
    /\ UNCHANGED cacheVars

\* os.WriteFile, second half: f.Write(data) and Close.
ProcWrite(i) ==
    /\ recordFile.p[i].pc = "write"
    /\ recordFile' =
            [recordFile EXCEPT
                !.bytes = WriteAtStart(recordFile.bytes,
                            Encode(MarshalCached(NameHello, HashA, now, recordFile.p[i].a))),
                !.p[i].pc = "done"]
    /\ UNCHANGED <<pc, cfg, operation, idx, pkgInfo, analysis, gate, out, aiCalls,
                   fromCache, installed, result, response, analysed, ctxDone,
                   cacheManager, call>>
    /\ UNCHANGED cacheVars

\* A lookup of the key by another process.
ObserverLookup ==
    /\ LookupRecordFile(recordFile) \notin recordFile.seen
    /\ recordFile' = [recordFile EXCEPT !.seen = @ \cup {LookupRecordFile(recordFile)}]
    /\ UNCHANGED <<pc, cfg, operation, idx, pkgInfo, analysis, gate, out, aiCalls,
                   fromCache, installed, result, response, analysed, ctxDone,
                   cacheManager, call>>
    /\ UNCHANGED cacheVars

---------------------------------------------------------------------------

(* AnalyzePKGBUILDWithOptions (internal/providers/claude.go): the caller   *)
(* and, unless noSpinner, the goroutine that draws the spinner.  done is   *)
(* an unbuffered channel: the send of the caller completes in the step in  *)
(* which the goroutine's select receives, and the select takes its default *)
(* case exactly when no sender waits.                                      *)

\* len(spinner), the frames drawn in turn.
SpinnerLen == 10

\* Before the call.  i is kept as i % len(spinner), the frame it selects.
NotCalled ==
    [caller |-> "idle", goroutine |-> "none", noSpinner |-> FALSE, i |-> 0,
     err |-> FALSE, ret |-> "none"]

\* The caller is parked in done <- true.
SenderWaits == call.caller = "send"

CallUnchanged ==
    /\ UNCHANGED <<pc, cfg, operation, idx, pkgInfo, analysis, gate, out, aiCalls,
                   fromCache, installed, result, response, analysed, ctxDone,
                   cacheManager, recordFile>>
    /\ UNCHANGED cacheVars

\* The call up to cmd.Output(): with the spinner, "Analyzing with Claude... "
\* is printed, done is made and the goroutine is started.
StartAnalysis(noSpinner) ==
    /\ call.caller = "idle"
    /\ call' = [NotCalled EXCEPT !.caller = "Output", !.noSpinner = noSpinner,
                                 !.goroutine = IF noSpinner THEN "none" ELSE "select"]
    /\ CallUnchanged

\* cmd.Output() returns, with an error or without; the caller goes on to
\* done <- true, or with noSpinner to the end of the branch.
CmdOutputReturns(err) ==
    /\ call.caller = "Output"
    /\ call' = [call EXCEPT !.err = err,
                            !.caller = IF call.noSpinner THEN "return" ELSE "send"]
    /\ CallUnchanged

\* A select that never takes the case of done.
SpinnerSelectDefaultOnly ==
    /\ call.goroutine = "select"
    /\ call' = [call EXCEPT !.goroutine = "Sleep", !.i = (call.i + 1) % SpinnerLen]
    /\ CallUnchanged

\* The goroutine's select: case <-done when the caller waits in the send
\* (the send completes and the caller goes on to its Sleep), default
\* otherwise (the frame is drawn, i++, and the goroutine sleeps).
SpinnerSelect ==
    /\ call.goroutine = "select"
    /\ call' = IF SenderWaits
               THEN [call EXCEPT !.goroutine = "received", !.caller = "Sleep"]
               ELSE [call EXCEPT !.goroutine = "Sleep", !.i = (call.i + 1) % SpinnerLen]
    /\ CallUnchanged

\* time.Sleep(100 * time.Millisecond) of the goroutine ends: back to the select.
SpinnerWakes ==
    /\ call.goroutine = "Sleep"
    /\ call' = [call EXCEPT !.goroutine = "select"]
    /\ CallUnchanged

\* fmt.Printf("\r"); return
SpinnerReturns ==
    /\ call.goroutine = "received"
    /\ call' = [call EXCEPT !.goroutine = "exited"]
    /\ CallUnchanged

\* time.Sleep(10 * time.Millisecond) of the caller ends and Complete! is printed.
CallerWakes ==
    /\ call.caller = "Sleep"
    /\ call' = [call EXCEPT !.caller = "return"]
    /\ CallUnchanged

\* The end of the call: the error of the command, or what
\* parseAnalysisResponse makes of the output.
CallerReturns(parsed) ==
    /\ call.caller = "return"
    /\ call' = [call EXCEPT !.caller = "returned",
                            !.ret = IF call.err THEN "claude analysis failed"
                                    ELSE IF parsed THEN "analysis"
                                    ELSE "failed to parse analysis"]
    /\ CallUnchanged

---------------------------------------------------------------------------

Init ==
    /\ files = <<>>
    /\ now = 0
    /\ last = NoCall
    /\ inserted = {}
    /\ pc = "idle"
    /\ cfg = NoConfig
    /\ operation = NoOperation
    /\ idx = 0
    /\ pkgInfo = Idle
    /\ analysis = NoAnalysis
    /\ gate = "none"
    /\ out = <<>>
    /\ aiCalls = 0
    /\ fromCache = FALSE
    /\ installed = 0
    /\ result = "none"
    /\ response = ""
    /\ analysed = <<>>
    /\ ctxDone = FALSE
    /\ cacheManager = TRUE
    /\ recordFile = NoRecordFile
    /\ call = NotCalled

NextCache ==
    \/ \E name \in CacheNames, id \in CacheIds : CallGetCachedAnalysis(name, id)
    \/ \E name \in CacheNames, id \in CacheIds : CallIsCached(name, id)
    \/ \E name \in CacheNames, id \in CacheIds, a \in CacheVerdicts :
            CallSaveAnalysis(name, id, a)

SpecCache == Init /\ [][NextCache]_vars

(* The program: install commands run one after the other on one cache.     *)

Next ==
    \/ \E args \in CommandLines, skipAnalysis \in BOOLEAN, setup \in {"ok", "failed"} :
            RunInstall(args, skipAnalysis, setup)
    \/ \E ok \in BOOLEAN : GetPackageInfo(ok)
    \/ \E resolved \in BOOLEAN : EnrichPackageInfo(resolved, HashA)
    \/ CacheLookup
    \/ \E ok \in BOOLEAN, level \in PipelineLevels : Analyze(ok, level)
    \/ HandleAnalysisResult
    \/ \E r \in Responses : UserResponse(r)
    \/ \E ok \in BOOLEAN : InstallPackages(ok)
    \/ Exit

Spec == Init /\ [][Next]_vars

(* handleAnalysisResult on every verdict and every pair of thresholds.     *)

GateConfigs ==
    [BlockLevel : Levels, WarnLevel : Levels, AutoProceed : BOOLEAN,
     CacheEnabled : {TRUE}]

GateVerdicts ==
    {ProviderVerdict(NameHello, level) : level \in Levels}
        \cup {Analysis(NameHello, level, level, <<>>, rec, <<>>) :
                    level \in Levels, rec \in {"PROCEED", "BLOCK"}}

InitGate ==
    /\ files = <<>>
    /\ now = 0
    /\ last = NoCall
    /\ inserted = {}
    /\ pc = "gate"
    /\ cfg \in GateConfigs
    /\ operation = ParseYayCommand(<<NameHello>>)
    /\ idx = 1
    /\ pkgInfo = [Name |-> NameHello, PKGBUILD |-> PkgbuildFirst, Version |-> PkgVer,
                  CommitHash |-> HashA]
    /\ analysis \in GateVerdicts
    /\ gate = "none"
    /\ out = <<>>
    /\ aiCalls = 1
    /\ fromCache = FALSE
    /\ installed = 0
    /\ result = "none"
    /\ response = ""
    /\ analysed = <<>>
    /\ ctxDone = FALSE
    /\ cacheManager = TRUE
    /\ recordFile = NoRecordFile
    /\ call = NotCalled

NextGate ==
    \/ HandleAnalysisResult
    \/ \E r \in Responses : UserResponse(r)

SpecGate == InitGate /\ [][NextGate]_vars

(* Pruning: records of one package written at different clock readings,    *)
(* then CleanExpiredCache as `cache clean --days` and `cache clear` call   *)
(* it (internal/cmd/yay_style.go).                                         *)

PruneNames == {NameHello}
PruneIds   == {HashA, HashB}

NextPrune ==
    \/ \E name \in PruneNames, id \in PruneIds : CallSaveAnalysis(name, id, VerdictLow)
    \/ \E maxAge \in 0..MaxTime : CallCleanExpiredCache(maxAge)
    \/ Tick
    \/ ClockSetBack

SpecPrune == Init /\ [][NextPrune]_vars

(* Install commands for one package on a cache directory in which record   *)
(* files get damaged between the runs.                                     *)

CorruptIds == {HashA, FallbackId(NameHello, PkgVer)}

NextCorrupt ==
    \/ \E args \in SeqsUpTo({NameHello}, MaxPkgs) : RunInstall(args, FALSE, "ok")
    \/ GetPackageInfo(TRUE)
    \/ \E resolved \in BOOLEAN : EnrichPackageInfo(resolved, HashA)
    \/ CacheLookup
    \/ \E ok \in BOOLEAN, level \in PipelineLevels : Analyze(ok, level)
    \/ HandleAnalysisResult
    \/ \E r \in Responses : UserResponse(r)
    \/ \E ok \in BOOLEAN : InstallPackages(ok)
    \/ Exit
    \/ \E id \in CorruptIds : CorruptRecord(NameHello, id, HashB)

SpecCorrupt == Init /\ [][NextCorrupt]_vars

(* The cache commands: records of several packages are written, listed,    *)
(* counted and pruned.                                                     *)

StoreNames == {NameSlash, NameUnder, NameCache}
StoreIds   == {HashA, ShortId}

NextStore ==
    \/ \E name \in StoreNames, id \in StoreIds : CallSaveAnalysis(name, id, VerdictLow)
    \/ \E maxAge \in 0..MaxTime : CallCleanExpiredCache(maxAge)
    \/ Tick
    \/ \E name \in StoreNames : CallGetPackageVersions(name)
    \/ CallGetCacheStats

SpecStore == Init /\ [][NextStore]_vars

(* sanitizePackageName on each name.                                       *)

NextSanitize == \E name \in SanitizeNames : CallSanitizePackageName(name)

SpecSanitize == Init /\ [][NextSanitize]_vars

(* The trust analysis of each repository and maintainer.                   *)

NextTrust ==
    \E repo \in Repositories, maintainer \in Maintainers :
        CallAnalyzePackageTrust(repo, maintainer)

SpecTrust == Init /\ [][NextTrust]_vars

(* The program as main starts it.                                          *)

NextMain ==
    \/ \E args \in MainArgs, setup \in {"ok", "failed"} : Main(args, setup)
    \/ \E ok \in BOOLEAN : GetPackageInfo(ok)
    \/ EnrichPackageInfo(TRUE, HashA)
    \/ CacheLookup
    \/ \E ok \in BOOLEAN, level \in PipelineLevels : Analyze(ok, level)
    \/ HandleAnalysisResult
    \/ \E r \in Responses : UserResponse(r)
    \/ \E ok \in BOOLEAN : InstallPackages(ok)
    \/ Exit

SpecMain == Init /\ [][NextMain]_vars

(* The program with the signals delivered to it while a command runs.      *)

NextCancel ==
    \/ Next
    \/ Signal

SpecCancel == Init /\ [][NextCancel]_vars

(* Install commands for one package whose verdict is parsed from the       *)
(* provider's answer.                                                      *)

VerdictFindings ==
    {<<>>} \cup {<<FindingsMember(fs)>> :
                    fs \in UNION {[1..k -> {RawFinding(WordLow, <<>>),
                                            RawFinding(WordCritical, <<>>)}] :
                                    k \in 1..MaxFindings}}

VerdictAnswers ==
    {<<Text>>, <<Close, Text, Open>>}
        \cup {<<Open, Member("overall_entropy", w)>> \o f \o <<Close>> :
                w \in {WordLow, WordHigh, WordCritical}, f \in VerdictFindings}

NextVerdict ==
    \/ RunInstall(<<NameHello>>, FALSE, "ok")
    \/ GetPackageInfo(TRUE)
    \/ \E resolved \in BOOLEAN : EnrichPackageInfo(resolved, HashA)
    \/ CacheLookup
    \/ \E ok \in BOOLEAN, output \in VerdictAnswers : AnalyzePKGBUILD(ok, output)
    \/ HandleAnalysisResult
    \/ \E r \in Responses : UserResponse(r)
    \/ \E ok \in BOOLEAN : InstallPackages(ok)
    \/ Exit

SpecVerdict == Init /\ [][NextVerdict]_vars

(* Runs whose cache fails: the cache directory cannot be made, the record  *)
(* of the key is corrupt, or the record cannot be written (the fallback    *)
(* identifier of a package name with a path separator).                    *)

DegradeNames == {NameHello, NameSlash}

NextDegrade ==
    \/ \E name \in DegradeNames : RunInstall(<<name>>, FALSE, "ok")
    \/ GetPackageInfo(TRUE)
    \/ \E resolved \in BOOLEAN : EnrichPackageInfo(resolved, HashA)
    \/ \E created \in BOOLEAN : NewCacheManagerAndLookup(created)
    \/ \E ok \in BOOLEAN, level \in PipelineLevels : Analyze(ok, level)
    \/ HandleAnalysisResult
    \/ \E r \in Responses : UserResponse(r)
    \/ \E ok \in BOOLEAN : InstallPackages(ok)
    \/ Exit
    \/ CorruptRecord(NameHello, HashA, HashB)

SpecDegrade == Init /\ [][NextDegrade]_vars

(* parseSecurityEntropy on each label.                                     *)

NextEntropy == \E level \in EntropyLabels : CallParseSecurityEntropy(level)

SpecEntropy == Init /\ [][NextEntropy]_vars

(* Two processes on one key, and a third that looks the key up.            *)

NextRace ==
    \/ \E i \in Procs : ProcLookup(i)
    \/ \E i \in Procs, a \in CacheVerdicts : ProcAnalyze(i, a)
    \/ \E i \in Procs : ProcOpenFile(i)
    \/ \E i \in Procs : ProcWrite(i)
    \/ ObserverLookup

SpecRace == Init /\ [][NextRace]_vars

(* Runs on one package whose PKGBUILD changes between runs while its       *)
(* pkgver stays; the provider's verdict follows the text it is given: it   *)
(* is below the warn level for the first text and at the block level for   *)
(* the changed one, so the gate never prompts.                             *)

Pkgbuilds == {PkgbuildFirst, PkgbuildChanged}

TextLevel(pkgbuild) ==
    IF pkgbuild = PkgbuildFirst THEN EntropyMinimal ELSE EntropyCritical

NextStale ==
    \/ \E name \in PipelineNames : RunInstall(<<name>>, FALSE, "ok")
    \/ \E ok \in BOOLEAN, pkgbuild \in Pkgbuilds : GetPackageInfoOf(ok, pkgbuild)
    \/ \E resolved \in BOOLEAN : EnrichPackageInfo(resolved, HashA)
    \/ CacheLookup
    \/ \E ok \in BOOLEAN : Analyze(ok, TextLevel(pkgInfo.PKGBUILD))
    \/ HandleAnalysisResult
    \/ \E ok \in BOOLEAN : InstallPackages(ok)
    \/ Exit

SpecStale == Init /\ [][NextStale]_vars

(* Runs on one package while the clock goes on between and during them.    *)

\* Cache.MaxAgeDays of config.Load, in clock readings: one reading of the
\* model's clock is the 90 days of the default.
MaxAgeDays == 1

NextExpire ==
    \/ RunInstall(<<NameHello>>, FALSE, "ok")
    \/ GetPackageInfo(TRUE)
    \/ EnrichPackageInfo(TRUE, HashA)
    \/ CacheLookup
    \/ \E ok \in BOOLEAN, level \in PipelineLevels : Analyze(ok, level)
    \/ HandleAnalysisResult
    \/ \E r \in Responses : UserResponse(r)
    \/ \E ok \in BOOLEAN : InstallPackages(ok)
    \/ Exit
    \/ Tick

SpecExpire == Init /\ [][NextExpire]_vars

(* analyzeAndDecide and the loop of runInstall on a configuration whose    *)
(* Cache.Enabled is false, over a store that is empty or holds the record  *)
(* of an earlier evaluation of one of the keys.                            *)

DisabledConfigs ==
    [BlockLevel : {EntropyCritical}, WarnLevel : {EntropyModerate, EntropyCritical},
     AutoProceed : BOOLEAN, CacheEnabled : {FALSE}]

DisabledCommandLines == SeqsUpTo(PipelineNames, MaxPkgs) \ {<<>>}

InitDisabled ==
    /\ \E stored \in BOOLEAN :
            /\ files = IF stored
                       THEN SaveAnalysisFiles(<<>>, 0, NameHello, HashA,
                                              ProviderVerdict(NameHello, EntropyCritical))
                       ELSE <<>>
            /\ inserted = IF stored THEN {<<NameHello, HashA>>} ELSE {}
            /\ analysed = IF stored
                          THEN [k \in {<<NameHello, HashA>>} |->
                                    ProviderVerdict(NameHello, EntropyCritical)]
                          ELSE <<>>
    /\ now = 0
    /\ last = NoCall
    /\ pc = "getinfo"
    /\ cfg \in DisabledConfigs
    /\ operation \in {ParseYayCommand(args) : args \in DisabledCommandLines}
    /\ idx = 1
    /\ pkgInfo = Idle
    /\ analysis = NoAnalysis
    /\ gate = "none"
    /\ out = <<>>
    /\ aiCalls = 0
    /\ fromCache = FALSE
    /\ installed = 0
    /\ result = "none"
    /\ response = ""
    /\ ctxDone = FALSE
    /\ cacheManager = TRUE
    /\ recordFile = NoRecordFile
    /\ call = NotCalled

NextDisabled ==
    \/ \E ok \in BOOLEAN : GetPackageInfo(ok)
    \/ \E resolved \in BOOLEAN : EnrichPackageInfo(resolved, HashA)
    \/ CacheLookup
    \/ \E ok \in BOOLEAN, level \in PipelineLevels : Analyze(ok, level)
    \/ HandleAnalysisResult
    \/ \E r \in Responses : UserResponse(r)
    \/ \E ok \in BOOLEAN : InstallPackages(ok)
    \/ Exit

SpecDisabled == InitDisabled /\ [][NextDisabled]_vars

(* One call of AnalyzePKGBUILDWithOptions.  The Go scheduler runs every    *)
(* goroutine that can run and every Sleep ends, so the steps of the        *)
(* spinner goroutine and the caller's steps after the command has returned *)
(* are weakly fair; the external command returns when it returns.          *)

SpinnerSteps == SpinnerSelect \/ SpinnerWakes \/ SpinnerReturns

CallerSteps == CallerWakes \/ \E parsed \in BOOLEAN : CallerReturns(parsed)

NextSpinner ==
    \/ \E noSpinner \in BOOLEAN : StartAnalysis(noSpinner)
    \/ \E err \in BOOLEAN : CmdOutputReturns(err)
    \/ SpinnerSelect
    \/ SpinnerWakes
    \/ SpinnerReturns
    \/ CallerWakes
    \/ \E parsed \in BOOLEAN : CallerReturns(parsed)

SpecSpinner ==
    Init /\ [][NextSpinner]_vars /\ WF_vars(SpinnerSteps) /\ WF_vars(CallerSteps)

(* The resolver's two functions on each identifier and each output.       *)

NextResolver ==
    \/ \E hash \in HashCandidates : CallValidateCommitHash(hash)
    \/ \E ok \in BOOLEAN, output \in LsRemoteOutputs : CallGetLatestCommitHash(ok, output)

SpecResolver == Init /\ [][NextResolver]_vars

(* parseAnalysisResponse on each answer.                                   *)

NextParse == \E output \in Answers : CallParseAnalysisResponse(output)

SpecParse == Init /\ [][NextParse]_vars

---------------------------------------------------------------------------
(* Properties of the cache store. *)

CacheMissNeverThrows ==
    <<last.name, last.id>> \notin inserted =>
        /\ last.op = "GetCachedAnalysis" => last.ret.kind = "miss"
        /\ last.op = "IsCached" => last.ret.kind = "false"

HitRequiresExactKey ==
    (last.op = "GetCachedAnalysis" /\ last.ret.kind = "hit")
        => <<last.name, last.id>> \in inserted

\* C8 (pruning correctness): CleanExpiredCache(0) removes every record, and
\* CleanExpiredCache(d) with d at least the age of every record removes none.
Age(modTime, t) == t - modTime

PruningCorrect ==
    last.op = "CleanExpiredCache" =>
        /\ last.maxAge = 0 =>
                \A name \in PruneNames, id \in PruneIds : ~IsCached(files, name, id)
        /\ (\A p \in DOMAIN last.pre : last.maxAge >= Age(last.pre[p], last.at))
                => DOMAIN files = DOMAIN last.pre

---------------------------------------------------------------------------
(* Properties of the decision gate and of the install pipeline. *)

Asked == Line("PROMPT") \in Range(out)
Severity == analysis.OverallLevel

\* C1 (gate ordering): a verdict whose severity is at or above the block
\* threshold ends BLOCKED with the policy-blocked error and is never asked
\* about, whatever the warn threshold.
GateOrdering ==
    (pc # "gate" /\ Severity >= cfg.BlockLevel) =>
        /\ gate = "BLOCKED"
        /\ result = "blocked"
        /\ pc = "done"
        /\ ~Asked

GateOrderingWitness ==
    /\ gate = "BLOCKED"
    /\ cfg.WarnLevel > cfg.BlockLevel
    /\ Severity >= cfg.WarnLevel

\* C2 (install safety): once the user declines at the prompt of a WARNED
\* package the run is over with the cancelled error, and InstallPackages is
\* not invoked in that run, wherever the package stands in the list.
InstallSafety ==
    /\ gate \in {"WARNED", "CANCELLED"} => (installed = 0 /\ pc # "install")
    /\ gate = "CANCELLED" => (result = "cancelled" /\ pc = "done")

InstallSafetyWitness ==
    /\ gate = "CANCELLED"
    /\ idx = 2
    /\ Severity = EntropyHigh
    /\ cfg.BlockLevel = EntropyCritical
    /\ cfg.WarnLevel = EntropyModerate

\* C4 (cache hit skips analysis): with the cache enabled, the provider is
\* reached only for a key no earlier evaluation analysed and saved, and an
\* evaluation that did not call the provider hands the gate the verdict that
\* was analysed and saved for its key.
CacheHitSkipsAnalysis ==
    /\ (pc = "analyze" /\ cfg.CacheEnabled) => Key \notin DOMAIN analysed
    /\ (pc \in {"gate", "confirm"} /\ aiCalls = 0) =>
            /\ fromCache
            /\ Key \in DOMAIN analysed
            /\ analysis = analysed[Key]

CacheHitSkipsAnalysisWitness ==
    /\ pc = "gate"
    /\ fromCache
    /\ aiCalls = 0
    /\ Key = <<NameHello, HashA>>
    /\ analysis = ProviderVerdict(NameHello, EntropyMinimal)

\* C9 (warn branch): a severity at or above the warn threshold and below the
\* block threshold waits at the prompt unless autoProceedOnWarn is set; from
\* the prompt only "y" or "Y" reaches PROCEED, any other response CANCELLED;
\* with autoProceedOnWarn it reaches PROCEED without a prompt.
WarnBranch ==
    (pc # "gate" /\ cfg.WarnLevel <= Severity /\ Severity < cfg.BlockLevel) =>
        IF cfg.AutoProceed
        THEN gate = "PROCEED" /\ ~Asked /\ pc = "install"
        ELSE /\ Asked
             /\ IF pc = "confirm"
                THEN gate = "WARNED" /\ response = ""
                ELSE IF response \in {"y", "Y"}
                THEN gate = "PROCEED" /\ pc = "install"
                ELSE gate = "CANCELLED" /\ pc = "done" /\ result = "cancelled"

WarnBranchWitness ==
    /\ gate = "CANCELLED"
    /\ response = "yes"
    /\ cfg.WarnLevel <= Severity
    /\ Severity < cfg.BlockLevel

\* C10 (proceed branch): a severity below both thresholds reaches PROCEED in
\* the gate's first step, with no prompt and no response read, whatever
\* autoProceedOnWarn is.
ProceedBranch ==
    (pc # "gate" /\ Severity < cfg.BlockLevel /\ Severity < cfg.WarnLevel) =>
        /\ gate = "PROCEED"
        /\ pc = "install"
        /\ ~Asked
        /\ response = ""

ProceedBranchWitness ==
    /\ gate = "PROCEED"
    /\ ~cfg.AutoProceed
    /\ Severity < cfg.BlockLevel
    /\ Severity + 1 = cfg.WarnLevel

---------------------------------------------------------------------------
(* Properties of the pipeline on a damaged cache. *)

\* The record file at the path of (name, id) embeds another commit hash.
RecordCorrupt(fs, name, id) ==
    /\ getCacheFilePath(name, id) \in DOMAIN fs
    /\ fs[getCacheFilePath(name, id)].data.cache_metadata.commit_hash # id

\* C11 (corruption is never a hit): on a record whose embedded commit hash
\* differs from the requested identifier GetCachedAnalysis returns the
\* corruption error and no verdict, and the cache check of the pipeline goes
\* on to a fresh analysis with no verdict taken from the cache.
CorruptionIsNeverAHit ==
    [][(pc = "lookup" /\ pc' # "lookup"
            /\ RecordCorrupt(files, pkgInfo.Name, pkgInfo.CommitHash)) =>
        /\ GetCachedAnalysis(files, pkgInfo.Name, pkgInfo.CommitHash)
                = Ret("corrupt", NoAnalysis)
        /\ pc' = "analyze"
        /\ analysis' = NoAnalysis
        /\ ~fromCache']_vars

CorruptionIsNeverAHitWitness ==
    /\ pc = "analyze"
    /\ RecordCorrupt(files, pkgInfo.Name, pkgInfo.CommitHash)
    /\ analysis = NoAnalysis
    /\ aiCalls = 0

\* C12 (corrupt record is preserved): once a run has found the record of its
\* key corrupt, no step of that run deletes or rewrites the record file.
CorruptRecordPreserved ==
    [][(pc = "analyze" /\ RecordCorrupt(files, pkgInfo.Name, pkgInfo.CommitHash)) =>
        /\ getCacheFilePath(pkgInfo.Name, pkgInfo.CommitHash) \in DOMAIN files'
        /\ files'[getCacheFilePath(pkgInfo.Name, pkgInfo.CommitHash)]
                = files[getCacheFilePath(pkgInfo.Name, pkgInfo.CommitHash)]]_vars

\* C13 (write-once per key): SaveAnalysis on a key whose record file exists
\* leaves that record as it is.
WriteOncePerKey ==
    [][(last'.op = "SaveAnalysis" /\ last' # last
            /\ getCacheFilePath(last'.name, last'.id) \in DOMAIN files) =>
        files'[getCacheFilePath(last'.name, last'.id)]
            = files[getCacheFilePath(last'.name, last'.id)]]_vars

\* C14 (BLOCKED decisions enumerate findings): when the gate ends BLOCKED, every
\* finding of the verdict has been printed.
BlockedEnumeratesFindings ==
    gate = "BLOCKED" =>
        \A i \in 1..Len(analysis.Findings) :
            [kind |-> "FINDING", finding |-> analysis.Findings[i]] \in Range(out)

---------------------------------------------------------------------------
(* Properties of the provider's parser. *)

\* The answer holds a JSON object: braces around members only.
HasObject(output) ==
    \E i \in 1..Len(output), j \in 1..Len(output) :
        /\ i < j
        /\ output[i] = Open
        /\ output[j] = Close
        /\ \A k \in (i + 1)..(j - 1) : output[k].kind = "member"

HasMember(output, key) ==
    \E i \in 1..Len(output) : output[i].kind = "member" /\ output[i].key = key

MemberValue(output, key) ==
    output[CHOOSE i \in 1..Len(output) :
                output[i].kind = "member" /\ output[i].key = key].value

\* The severity each label stands for.
SeverityOfWord(w) ==
    CASE w = WordMinimal  -> EntropyMinimal
      [] w = WordLow      -> EntropyLow
      [] w = WordModerate -> EntropyModerate
      [] w = WordHigh     -> EntropyHigh
      [] w = WordCritical -> EntropyCritical

CanonicalWords == {WordMinimal, WordLow, WordModerate, WordHigh, WordCritical}

\* C15 (no default severity on malformed output): an answer with no JSON
\* object, or whose object has neither overall_entropy nor overall_level,
\* makes parseAnalysisResponse return an error and no verdict.
MalformedIsHardFailure ==
    (last.op = "parseAnalysisResponse"
        /\ (~HasObject(last.output)
            \/ (~HasMember(last.output, "overall_entropy")
                /\ ~HasMember(last.output, "overall_level")))) =>
        last.ret = Ret("error", NoAnalysis)

\* C16 (overall_level fallback): an answer with no overall_entropy and an
\* overall_level among MINIMAL..CRITICAL gives a verdict of that severity, and
\* a finding with no entropy and such a severity gets that severity.
OverallLevelFallback ==
    (last.op = "parseAnalysisResponse" /\ last.output \in Objects) =>
        /\ (~HasMember(last.output, "overall_entropy")
                /\ HasMember(last.output, "overall_level")
                /\ MemberValue(last.output, "overall_level") \in CanonicalWords) =>
              /\ last.ret.kind = "ok"
              /\ last.ret.analysis.OverallEntropy
                    = SeverityOfWord(MemberValue(last.output, "overall_level"))
              /\ last.ret.analysis.OverallLevel
                    = SeverityOfWord(MemberValue(last.output, "overall_level"))
        /\ \A i \in 1..Len(FindingsField(last.output)) :
              (FindingsField(last.output)[i].entropy = <<>>
                    /\ FindingsField(last.output)[i].severity \in CanonicalWords) =>
                 /\ last.ret.kind = "ok"
                 /\ last.ret.analysis.Findings[i].Severity
                        = SeverityOfWord(FindingsField(last.output)[i].severity)

\* C17 (verdict severity invariant): the verdict in hand after the cache check
\* or the provider call, and every verdict in a record of the cache, has an
\* overall severity at or above the severity of each of its findings.
VerdictSeverityInvariant ==
    /\ analysis # NoAnalysis =>
            \A i \in 1..Len(analysis.Findings) :
                analysis.OverallLevel >= analysis.Findings[i].Severity
    /\ \A p \in DOMAIN files :
            \A i \in 1..Len(UnmarshalCached(files[p].data).Analysis.Findings) :
                UnmarshalCached(files[p].data).Analysis.OverallLevel
                    >= UnmarshalCached(files[p].data).Analysis.Findings[i].Severity

---------------------------------------------------------------------------
(* Properties of the version resolver. *)

HexChars ==
    {"0", "1", "2", "3", "4", "5", "6", "7", "8", "9",
     "a", "b", "c", "d", "e", "f", "A", "B", "C", "D", "E", "F"}

FortyHex(str) == Len(str) = 40 /\ \A i \in 1..Len(str) : str[i] \in HexChars

\* C18 (resolver validation): GetLatestCommitHash succeeds only with an
\* identifier of exactly 40 hexadecimal characters, and an output whose first
\* field is not one makes it fail.
ResolverValidation ==
    last.op = "GetLatestCommitHash" =>
        /\ last.ret.kind = "ok" => FortyHex(last.ret.hash)
        /\ \A h \in HashCandidates \ {<<>>} :
                (last.output = h \o TabHead /\ ~FortyHex(h)) => last.ret.kind = "error"

\* C19 (identifier validation): ValidateCommitHash(s) is true exactly when s
\* has length 40 and every character of s is in [0-9a-fA-F].
IdentifierValidation ==
    last.op = "ValidateCommitHash" => (last.ret <=> FortyHex(last.hash))

IdentifierValidationWitness ==
    /\ last.op = "ValidateCommitHash"
    /\ last.hash = WithRune(Rep("a", 40), 1, "F")
    /\ last.ret

---------------------------------------------------------------------------
(* Properties of the fallback identifier. *)

\* fallback-{name}-1.2.3
ExpectedFallback(name) ==
    <<"f", "a", "l", "l", "b", "a", "c", "k", "-">> \o name
        \o <<"-", "1", ".", "2", ".", "3">>

---------------------------------------------------------------------------
(* C21: when SIGINT or SIGTERM is delivered while the version query        *)
(* (pc = "enrich") or the provider call (pc = "analyze") is in flight, the *)
(* command ends there with the outcome Cancelled, which is not the outcome *)
(* of a failure, and takes no later step: no fallback identifier, no cache *)
(* lookup, no gate, no install.                                            *)
CancellationIsDistinguishable ==
    [][ctxDone /\ pc \in {"enrich", "analyze"}
            => /\ pc' = "done"
               /\ result' = "Cancelled"
               /\ pkgInfo'.CommitHash = pkgInfo.CommitHash]_vars

---------------------------------------------------------------------------
(* Properties of the listing and the statistics. *)

\* The keys whose record is in the store: what SaveAnalysis wrote into each
\* record file as package_name and commit_hash.
StoredKeys(fs) ==
    {<<UnmarshalCached(fs[p].data).CacheMetadata.PackageName,
       UnmarshalCached(fs[p].data).CacheMetadata.CommitHash>> : p \in DOMAIN fs}

\* C22 (listIdentifiers): GetPackageVersions(q) returns, without an error,
\* exactly the identifiers that have a stored record for package q (inserted
\* and not pruned), each once, in lexicographic order; the empty list for a
\* package with no record.
ListIdentifiers ==
    last.op = "GetPackageVersions" =>
        /\ last.ret.kind = "ok"
        /\ Range(last.ret.versions) = {k[2] : k \in {x \in StoredKeys(files) : x[1] = last.name}}
        /\ \A i, j \in 1..Len(last.ret.versions) :
                i < j => StringLess(last.ret.versions[i], last.ret.versions[j])

\* C23 (stats agree with contents): after any inserts and prunes,
\* GetCacheStats reports TotalAnalyses equal to the number of stored records
\* and TotalPackages equal to the number of package partitions (the
\* directories of the sanitized names) that hold at least one record; both
\* are 0 for an empty cache.
StatsAgreeWithContents ==
    last.op = "GetCacheStats" =>
        /\ last.ret.stats.TotalAnalyses = Cardinality(StoredKeys(files))
        /\ last.ret.stats.TotalPackages =
                Cardinality({sanitizePackageName(k[1]) : k \in StoredKeys(files)})

\* C24 (sanitization): sanitizePackageName replaces each of / \ : * ? " < > |
\* and space by an underscore and leaves every other character as it is;
\* applied to its own result it changes nothing; "pkg/a:b" becomes "pkg_a_b".
Sanitization ==
    last.op = "sanitizePackageName" =>
        /\ Len(last.ret) = Len(last.name)
        /\ \A i \in 1..Len(last.name) :
                last.ret[i] =
                    IF last.name[i] \in {"/", "\\", ":", "*", "?", "\"", "<", ">", "|", " "}
                    THEN "_" ELSE last.name[i]
        /\ last.again = last.ret
        /\ last.name = <<"p", "k", "g", "/", "a", ":", "b">>
                => last.ret = <<"p", "k", "g", "_", "a", "_", "b">>

SanitizationWitness ==
    /\ last.op = "sanitizePackageName"
    /\ last.name = <<"p", "k", "g", "/", "a", ":", "b">>
    /\ last.ret = <<"p", "k", "g", "_", "a", "_", "b">>
    /\ last.again = last.ret

---------------------------------------------------------------------------
(* C25 (trust score monotonicity): with every other input the same, the    *)
(* trust score computed for a repository 400 days old is not lower than    *)
(* the one computed for a repository 5 days old, and neither is the        *)
(* TrustScore level it is converted to.                                    *)
TrustScoreMonotonicity ==
    last.op = "AnalyzePackageTrust" =>
        /\ ~FloatLess(last.old.baseScore, last.young.baseScore)
        /\ last.old.OverallTrustScore >= last.young.OverallTrustScore

TrustScoreMonotonicityWitness ==
    /\ last.op = "AnalyzePackageTrust"
    /\ last.young.baseScore.q = 100
    /\ last.old.baseScore.q = 750
    /\ last.young.OverallTrustScore = 0
    /\ last.old.OverallTrustScore = 3

---------------------------------------------------------------------------
(* C26 (cache subcommand dispatch): started with the first argument        *)
(* "cache" (cache status, cache clear), the program runs the cache         *)
(* subcommand and never enters the install workflow: no package is         *)
(* analysed and the package manager is not run.                            *)
CacheSubcommandDispatch ==
    [][\A args \in MainArgs, setup \in {"ok", "failed"} :
            (Len(args) > 0 /\ args[1] = NameCache /\ Main(args, setup))
                => /\ pc' = "idle"
                   /\ last'.op \in {"GetCacheStats", "CleanExpiredCache"}]_vars

---------------------------------------------------------------------------
(* C27 (the gate depends only on severity): the outcome of the gate        *)
(* (BLOCKED, WARNED, PROCEED, CANCELLED) is the value of one function of   *)
(* the verdict's overall severity, the thresholds and the user's response; *)
(* verdicts of equal severity that differ in recommendation or findings    *)
(* get the same outcome.                                                   *)
GateDependsOnlyOnSeverity ==
    gate # "none" =>
        gate = IF analysis.OverallLevel >= cfg.BlockLevel THEN "BLOCKED"
               ELSE IF analysis.OverallLevel < cfg.WarnLevel \/ cfg.AutoProceed
               THEN "PROCEED"
               ELSE IF pc = "confirm" THEN "WARNED"
               ELSE IF response \in {"y", "Y"} THEN "PROCEED"
               ELSE "CANCELLED"

GateDependsOnlyOnSeverityWitness ==
    /\ gate = "PROCEED"
    /\ analysis.Recommendation = "BLOCK"
    /\ analysis.Findings = <<>>
    /\ analysis.OverallLevel = EntropyLow
    /\ cfg.BlockLevel = EntropyHigh
    /\ cfg.WarnLevel = EntropyModerate

---------------------------------------------------------------------------
(* C28 (all-or-nothing install): in a run that analyses its packages (an   *)
(* install operation with at least one package, no skip-analysis),         *)
(* InstallPackages is invoked only after the gate reached PROCEED for      *)
(* every requested package: a package is reached only through the PROCEED  *)
(* of the one before it and the install only through the PROCEED of the    *)
(* last; at the first package that is BLOCKED, CANCELLED or fails          *)
(* evaluation the run is over, no later package is analysed and nothing    *)
(* is installed.                                                           *)
AllOrNothingInstall ==
    [][/\ (idx' >= 1 /\ (pc' = "install" \/ installed' > 0))
            => (idx' = Len(operation'.Packages) /\ gate' = "PROCEED")
       /\ (idx >= 1 /\ idx' = idx + 1) => (gate' = "PROCEED" /\ pc' = "getinfo")
       /\ (idx' >= 1 /\ (gate' \in {"BLOCKED", "CANCELLED"}
                          \/ result' \in {"failed", "blocked", "cancelled", "panic"}))
            => (pc' = "done" /\ (gate' # "PROCEED" => installed' = 0))
       /\ (pc = "done" => pc' = "idle")]_vars

AllOrNothingInstallWitness ==
    /\ installed = 1
    /\ operation.Operation = "install"
    /\ Len(operation.Packages) = MaxPkgs
    /\ idx = MaxPkgs
    /\ gate = "PROCEED"
    /\ result = "installed"

---------------------------------------------------------------------------
(* C29 (analysis failure is terminal): when the provider call fails or its *)
(* answer holds no JSON object, the provider was invoked exactly once for  *)
(* that package in that run, no cache record is written, the gate is not   *)
(* entered and no install is attempted: the run is over.                   *)
AnalysisFailureIsTerminal ==
    [][/\ \A ok \in BOOLEAN, output \in VerdictAnswers :
            (AnalyzePKGBUILD(ok, output) /\ (~ok \/ ~HasObject(output)))
                => /\ aiCalls' = 1
                   /\ files' = files
                   /\ inserted' = inserted
                   /\ analysis' = NoAnalysis
                   /\ gate' = "none"
                   /\ installed' = 0
                   /\ pc' = "done"
                   /\ result' \in {"failed", "panic"}
       /\ (pc = "done" => pc' = "idle")]_vars

AnalysisFailureIsTerminalWitness ==
    /\ pc = "done"
    /\ result = "failed"
    /\ pkgInfo.CommitHash = HashA
    /\ aiCalls = 1
    /\ analysis = NoAnalysis
    /\ gate = "none"
    /\ installed = 0
    /\ ~IsCached(files, pkgInfo.Name, pkgInfo.CommitHash)


---------------------------------------------------------------------------
(* C30 (cache failures degrade gracefully): when the cache manager cannot  *)
(* be created, or the lookup does not give a record (none, or a corrupt    *)
(* one), the run goes on to the provider and does not end; when the        *)
(* provider answers and the cache manager is missing or the record cannot  *)
(* be written, the run reaches the gate with the fresh verdict; and the    *)
(* gate then decides from that verdict's severity and the thresholds       *)
(* alone, as it does when the cache works.                                 *)
GracefulCacheDegradation ==
    [][/\ (/\ pc = "lookup" /\ pc' # "lookup"
            /\ \/ ~cacheManager'
               \/ GetCachedAnalysis(files, pkgInfo.Name, pkgInfo.CommitHash).kind # "hit")
            => (pc' = "analyze" /\ result' = result /\ aiCalls' = 0 /\ ~fromCache')
       /\ \A level \in PipelineLevels :
            (/\ Analyze(TRUE, level)
             /\ (~cacheManager \/ WriteFileFails(pkgInfo.CommitHash)))
            => /\ pc' = "gate"
               /\ analysis' = ProviderVerdict(pkgInfo.Name, level)
               /\ aiCalls' = 1
               /\ result' = result
               /\ files' = files
       /\ (/\ pc = "gate" /\ pc' # "gate" /\ ~fromCache
            /\ (~cacheManager \/ ~IsCached(files, pkgInfo.Name, pkgInfo.CommitHash)))
            => gate' = IF analysis.OverallLevel >= cfg.BlockLevel THEN "BLOCKED"
                       ELSE IF analysis.OverallLevel < cfg.WarnLevel \/ cfg.AutoProceed
                       THEN "PROCEED"
                       ELSE "WARNED"]_vars

GracefulCacheDegradationWitness ==
    /\ gate = "BLOCKED"
    /\ cacheManager
    /\ pkgInfo.Name = NameSlash
    /\ WriteFileFails(pkgInfo.CommitHash)
    /\ ~IsCached(files, pkgInfo.Name, pkgInfo.CommitHash)
    /\ analysis = ProviderVerdict(NameSlash, EntropyCritical)
    /\ aiCalls = 1
    /\ ~fromCache

---------------------------------------------------------------------------
---------------------------------------------------------------------------
(* C32 (trust scoring on miss): whenever the provider is invoked after a   *)
(* cache miss, AnalyzePackageTrust has been evaluated for the package      *)
(* before the invocation; on a cache hit it is not evaluated.              *)
TrustScoringOnMiss ==
    [][/\ (pc = "analyze" /\ aiCalls' = aiCalls + 1)
            => last.op = "AnalyzePackageTrust"
       /\ (pc = "lookup" /\ pc' = "gate")
            => last'.op # "AnalyzePackageTrust"]_vars

---------------------------------------------------------------------------
---------------------------------------------------------------------------
(* C34 (trust level mapping): the level AnalyzePackageTrust returns is the *)
(* level of the score 0.5 + sum(0.5 x weight) - sum(impact) of its factors *)
(* and indicators, clamped to [0, 1]: VERY_LOW below 0.2, LOW below 0.4,   *)
(* MEDIUM below 0.6, HIGH below 0.8, VERY_HIGH otherwise; MEDIUM when      *)
(* there is neither a factor nor an indicator.  Scores in thousandths.     *)
TrustLevelMapping ==
    last.op = "AnalyzePackageTrust" =>
        \A t \in {last.young, last.old} :
            LET Sum(f, n) == LET Partial[i \in 0..n] ==
                                    IF i = 0 THEN 0 ELSE Partial[i - 1] + f[i]
                             IN  Partial[n]
                weights == [i \in 1..Len(t.TrustFactors) |->
                                t.TrustFactors[i].Weight \div 2]
                impacts == [i \in 1..Len(t.RiskIndicators) |->
                                t.RiskIndicators[i].Impact]
                score   == 500 + Sum(weights, Len(weights)) - Sum(impacts, Len(impacts))
                clamped == IF score < 0 THEN 0 ELSE IF score > 1000 THEN 1000 ELSE score
            IN  /\ t.OverallTrustScore =
                        IF clamped < 200 THEN TrustVeryLow
                        ELSE IF clamped < 400 THEN TrustLow
                        ELSE IF clamped < 600 THEN TrustMedium
                        ELSE IF clamped < 800 THEN TrustHigh
                        ELSE TrustVeryHigh
                /\ (t.TrustFactors = <<>> /\ t.RiskIndicators = <<>>)
                        => t.OverallTrustScore = TrustMedium

---------------------------------------------------------------------------
(* C35 (concurrent inserts on one key): when both processes have finished, *)
(* the record file holds one record, and it decodes to the verdict of one  *)
(* of the two; and every lookup made while they run gave a miss, an error  *)
(* or the whole verdict of one of them.                                    *)
ConcurrentInsertsOnOneKey ==
    /\ (\A i \in Procs : recordFile.p[i].pc = "done")
            => \E i \in Procs :
                    LookupRecordFile(recordFile) = Ret("hit", recordFile.p[i].a)
    /\ \A r \in recordFile.seen :
            \/ r.kind \in {"miss", "error"}
            \/ r.kind = "hit" /\ \E i \in Procs : r.analysis = recordFile.p[i].a

---------------------------------------------------------------------------
(* C36 (fallback-identifier staleness): when resolution fails, the         *)
(* identifier is fallback-{name}-{pkgver} whatever else the PKGBUILD       *)
(* holds; and an evaluation with that identifier whose key an earlier run  *)
(* saved takes the saved verdict and does not call the provider, also when *)
(* the PKGBUILD is not the one the verdict was given for.                  *)
FallbackIdentifierStaleness ==
    [][/\ (pc = "enrich" /\ pc' = "lookup" /\ pkgInfo'.CommitHash # HashA)
            => pkgInfo'.CommitHash = ExpectedFallback(pkgInfo.Name)
       /\ (/\ pc = "lookup" /\ pc' # "lookup"
           /\ pkgInfo.CommitHash = ExpectedFallback(pkgInfo.Name)
           /\ <<pkgInfo.Name, pkgInfo.CommitHash>> \in inserted)
            => /\ pc' = "gate"
               /\ fromCache'
               /\ aiCalls' = 0
               /\ analysis' = analysed[<<pkgInfo.Name, pkgInfo.CommitHash>>]]_vars

FallbackIdentifierStalenessWitness ==
    /\ gate = "PROCEED"
    /\ fromCache
    /\ aiCalls = 0
    /\ pkgInfo.Name = NameHello
    /\ pkgInfo.PKGBUILD = PkgbuildChanged
    /\ pkgInfo.CommitHash = ExpectedFallback(NameHello)
    /\ analysis = ProviderVerdict(NameHello, TextLevel(PkgbuildFirst))

---------------------------------------------------------------------------
(* C37 (expired records are not reused): when the record of the key is     *)
(* older than cache.max_age_days at the cache check, the check is a miss:  *)
(* the run goes on to a fresh analysis and does not take the verdict of    *)
(* the record.                                                             *)
ExpiredRecordsAreNotReused ==
    [][(/\ pc = "lookup" /\ pc' # "lookup"
        /\ IsCached(files, pkgInfo.Name, pkgInfo.CommitHash)
        /\ Age(files[getCacheFilePath(pkgInfo.Name, pkgInfo.CommitHash)].modTime, now)
                > MaxAgeDays)
            => (pc' = "analyze" /\ ~fromCache' /\ analysis' = NoAnalysis)]_vars

----------------------------------------------------------------------------
(* C38 (cache disabled is a no-op on the store): while the configuration's *)
(* Cache.Enabled is false, no step of a run changes a cache record or adds *)
(* one, the step after the commit hash is resolved goes to the provider    *)
(* without reading the store, no verdict comes from the cache, and every   *)
(* package that reaches the gate got there by one provider call.           *)
CacheDisabledIsNoOp ==
    [][(pc # "idle" /\ ~cfg.CacheEnabled)
            => /\ files' = files
               /\ inserted' = inserted
               /\ analysed' = analysed
               /\ ~fromCache'
               /\ pc = "lookup" => (pc' = "analyze" /\ analysis' = analysis)
               /\ (pc # "gate" /\ pc' = "gate")
                    => (pc = "analyze" /\ aiCalls = 0 /\ aiCalls' = 1)]_vars

CacheDisabledIsNoOpWitness ==
    /\ ~cfg.CacheEnabled
    /\ idx = 2
    /\ pc = "gate"
    /\ Key = <<NameHello, HashA>>
    /\ IsCached(files, NameHello, HashA)
    /\ GetCachedAnalysis(files, NameHello, HashA)
            = Ret("hit", ProviderVerdict(NameHello, EntropyCritical))
    /\ analysis = ProviderVerdict(NameHello, EntropyMinimal)
    /\ aiCalls = 1
    /\ ~fromCache

----------------------------------------------------------------------------
(* C39 (spinner shutdown): in a call with the spinner, while the caller    *)
(* waits in the send on done the spinner goroutine is still in its loop,   *)
(* so a receiver exists and the two cannot block each other; and from the  *)
(* moment the external command has returned, with an error or without,     *)
(* the send is received, the goroutine ends and the caller returns.        *)
SpinnerShutdown ==
    /\ [](SenderWaits => call.goroutine \in {"select", "Sleep"})
    /\ [](call.caller \in {"Sleep", "return", "returned"} /\ ~call.noSpinner
            => call.goroutine \in {"received", "exited"})
    /\ \A err \in BOOLEAN :
            (SenderWaits /\ call.err = err)
                ~> (call.caller = "returned" /\ call.goroutine = "exited"
                        /\ call.err = err)

SpinnerShutdownWitness ==
    /\ call.caller = "returned"
    /\ call.goroutine = "exited"
    /\ ~call.noSpinner
    /\ call.i = 3
    /\ call.err
    /\ call.ret = "claude analysis failed"

========================================================================
